---------------------------- MODULE Spec2Model ----------------------------
(***************************************************************************)
(* A model of libconfigpp (src/include/libconfigpp.h): the Setting tree    *)
(* with its parent back-references, path addressing, scalar conversions,   *)
(* the tokenizer, the include-expanding parser and the printer.            *)
(*                                                                         *)
(* Text (names, paths, file contents, tokens) is a sequence of one-        *)
(* character strings.  A Setting that lives in a Config is a cell of       *)
(* heap, identified by its index (the object's address); a temporary     *)
(* Setting (a constructor argument, a parser result) is a value tree, a    *)
(* record [name, type, val, fmt, kids].                                    *)
(***************************************************************************)
EXTENDS Integers, Sequences, FiniteSets, TLC

VARIABLES
    heap,      \* NodeIds -> cell: the basic_setting objects owned by the Configs
    docs,      \* the ids of the Config objects (each is the root of a tree)
    err,       \* the exception the last call raised, "none" when it returned
    got,       \* what the last conversion operator returned, and for which type
    disk       \* the files on the disk: absolute path -> text

vars == <<heap, docs, err, got, disk>>

----------------------------------------------------------------------------
(* Bounds of the model *)

\* number of basic_setting objects that can be alive at once
MaxNodes == 4

\* number of file descriptors the process may hold at once (RLIMIT_NOFILE)
MaxOpenFiles == 3

\* the widths the model gives int (and unsigned) and long (and unsigned long):
\* the checker's integers are 32 bits wide, so the 32 and 64 bits of an LP64
\* build are scaled down, long being twice as wide as int
IntBits == 8
LongBits == 16

----------------------------------------------------------------------------
(* Characters *)

\* the printable ASCII characters, in code order, starting at code 32 (the
\* grave accent, code 96, is held by a placeholder: no text of the model uses it)
AsciiChars ==
    << " ", "!", "\"", "#", "$", "%", "&", "'", "(", ")", "*", "+", ",", "-",
       ".", "/", "0", "1", "2", "3", "4", "5", "6", "7", "8", "9", ":", ";",
       "<", "=", ">", "?", "@", "A", "B", "C", "D", "E", "F", "G", "H", "I",
       "J", "K", "L", "M", "N", "O", "P", "Q", "R", "S", "T", "U", "V", "W",
       "X", "Y", "Z", "[", "\\", "]", "^", "_", "grave", "a", "b", "c", "d", "e",
       "f", "g", "h", "i", "j", "k", "l", "m", "n", "o", "p", "q", "r", "s",
       "t", "u", "v", "w", "x", "y", "z", "{", "|", "}", "~" >>

CharSet == { AsciiChars[i] : i \in 1..Len(AsciiChars) } \cup { "\n", "\t" }

AsciiTable ==
    [ c \in CharSet |->
        IF c = "\n" THEN 10
        ELSE IF c = "\t" THEN 9
        ELSE 31 + CHOOSE i \in 1..Len(AsciiChars) : AsciiChars[i] = c ]

Ascii(c) == AsciiTable[c]

\* std::basic_string::operator< : lexicographic on the character codes
RECURSIVE StrLess(_, _)
StrLess(a, b) ==
    IF b = <<>> THEN FALSE
    ELSE IF a = <<>> THEN TRUE
    ELSE IF Ascii(Head(a)) < Ascii(Head(b)) THEN TRUE
    ELSE IF Ascii(Head(a)) > Ascii(Head(b)) THEN FALSE
    ELSE StrLess(Tail(a), Tail(b))

----------------------------------------------------------------------------
(* Types and values *)

ScalarTypes == { "TypeInt", "TypeInt64", "TypeFloat", "TypeString", "TypeBoolean" }
AggregateTypes == { "TypeArray", "TypeList", "TypeGroup" }
Types == ScalarTypes \cup AggregateTypes

isScalar(type) == type \in ScalarTypes

\* the payload of a scalar (boost::any m_value): the field its type reads
\* is b (bool), n (int, long), n and e (float: n * 10^e, e <= 0) or s
\* (string); the others stay at rest
NoVal == [ b |-> FALSE, n |-> 0, e |-> 0, s |-> <<>> ]
BoolVal(x) == [ NoVal EXCEPT !.b = x ]
NumVal(x) == [ NoVal EXCEPT !.n = x ]
StrVal(x) == [ NoVal EXCEPT !.s = x ]

RECURSIVE Pow10(_)
Pow10(n) == IF n = 0 THEN 1 ELSE 10 * Pow10(n - 1)

\* the float n * 10^e, with no trailing zero among its decimals
RECURSIVE FloatVal(_, _)
FloatVal(n, e) ==
    IF e > 0 THEN FloatVal(n * Pow10(e), 0)
    ELSE IF e < 0 /\ n % 10 = 0 THEN FloatVal(n \div 10, e + 1)
    ELSE [ NoVal EXCEPT !.n = n, !.e = e ]

\* static_cast<int>(float), static_cast<long>(float): the decimals are dropped
Truncate(f) ==
    IF f.n >= 0 THEN f.n \div Pow10(-f.e) ELSE -((-f.n) \div Pow10(-f.e))

\* basic_setting(name, type): a fresh setting, its value T() and no child
NewSetting(name, type) ==
    [ name |-> name, type |-> type, val |-> NoVal, fmt |-> "FormatDefault",
      kids |-> <<>> ]

----------------------------------------------------------------------------
(* The heap of basic_setting objects *)

NodeIds == 1..MaxNodes

\* the null pointer (m_parent(0))
NoNode == 0

FreeCell ==
    [ name |-> <<>>, type |-> "Free", parent |-> NoNode, kids |-> <<>>,
      val |-> NoVal, fmt |-> "FormatDefault" ]

\* a heap of n cells with no object in it
EmptyHeap(n) == [ i \in 1..n |-> FreeCell ]

Live(h) == { i \in DOMAIN h : h[i].type # "Free" }
FreeCount(h) == Cardinality(DOMAIN h \ Live(h))

\* operator new: the first free cell
Alloc(h) ==
    CHOOSE i \in DOMAIN h : h[i].type = "Free" /\ \A j \in 1..(i-1) : h[j].type # "Free"

SeqToSet(s) == { s[i] : i \in 1..Len(s) }

\* std::map::count(name) on m_mapping, std::vector::size() on m_properties
count(h, t, name) == Cardinality({ i \in 1..Len(h[t].kids) : h[h[t].kids[i]].name = name })

\* the result of a call on the heap: the new heap, the exception, the node returned
Ok(h, n) == [ h |-> h, err |-> "none", node |-> n ]
Throw(h, e) == [ h |-> h, err |-> e, node |-> NoNode ]

\* the value tree of the object at cell id (what a const basic_setting& to
\* it lets a copy read)
RECURSIVE ToValue(_, _)
ToValue(h, id) ==
    [ name |-> h[id].name, type |-> h[id].type, val |-> h[id].val,
      fmt |-> h[id].fmt,
      kids |-> [ i \in 1..Len(h[id].kids) |-> ToValue(h, h[id].kids[i]) ] ]

\* the cells of the subtree rooted at id
RECURSIVE Subtree(_, _)
Subtree(h, id) ==
    {id} \cup UNION { Subtree(h, h[id].kids[i]) : i \in 1..Len(h[id].kids) }

\* the cells of the subtree rooted at id, parents before children and
\* children in iteration order
RECURSIVE PreOrder(_, _)
RECURSIVE PreOrderKids(_, _, _)
PreOrder(h, id) == <<id>> \o PreOrderKids(h, h[id].kids, 1)
PreOrderKids(h, kids, i) ==
    IF i > Len(kids) THEN <<>>
    ELSE PreOrder(h, kids[i]) \o PreOrderKids(h, kids, i + 1)

\* The address operator new gives an object is arbitrary: the cells are
\* renumbered so that the trees of the roots rs (in the order of rs) lie in
\* the heap in pre-order.  An index identifies an object within one state.
RECURSIVE RootsOrder(_, _)
RootsOrder(h, rs) ==
    IF rs = <<>> THEN <<>> ELSE PreOrder(h, Head(rs)) \o RootsOrder(h, Tail(rs))

NewIndex(order, id) ==
    IF id = NoNode THEN NoNode ELSE CHOOSE k \in 1..Len(order) : order[k] = id

Renumber(h, rs) ==
    LET order == RootsOrder(h, rs)
    IN  [ i \in DOMAIN h |->
            IF i > Len(order) THEN FreeCell
            ELSE [ h[order[i]] EXCEPT
                     !.parent = NewIndex(order, @),
                     !.kids = [ k \in 1..Len(@) |-> NewIndex(order, @[k]) ] ] ]

\* ~basic_setting: the object and, through its m_value, all its descendants
destroy(h, id) ==
    LET gone == Subtree(h, id)
    IN  [ i \in DOMAIN h |-> IF i \in gone THEN FreeCell ELSE h[i] ]

\* std::map::insert(make_pair(name, v)): the position the key takes in the
\* iteration order of m_mapping; an equal key is already there: no insertion
map_insert(h, kids, id) ==
    IF \E i \in 1..Len(kids) : h[kids[i]].name = h[id].name THEN kids
    ELSE LET before == { i \in 1..Len(kids) : StrLess(h[kids[i]].name, h[id].name) }
             k == Cardinality(before)
         IN  SubSeq(kids, 1, k) \o <<id>> \o SubSeq(kids, k + 1, Len(kids))

\* std::map::erase(name), std::vector::erase(begin() + index)
RemoveAt(kids, k) == SubSeq(kids, 1, k - 1) \o SubSeq(kids, k + 1, Len(kids))

RECURSIVE copy_setting(_, _)
RECURSIVE clone(_, _, _)
RECURSIVE value_add(_, _, _)
RECURSIVE list_add(_, _, _)
RECURSIVE array_add(_, _, _)
RECURSIVE container_add(_, _, _)

\* basic_setting(const basic_setting& other): a new object with the name and
\* type of other, no parent, and m_value = other.m_value->clone(this)
copy_setting(h, other) ==
    IF FreeCount(h) = 0 THEN Throw(h, "bad_alloc")
    ELSE LET id == Alloc(h)
             h1 == [ h EXCEPT ![id] =
                       [ name |-> other.name, type |-> other.type,
                         parent |-> NoNode, kids |-> <<>>, val |-> other.val,
                         fmt |-> other.fmt ] ]
         IN  clone(h1, id, other.kids)

\* a clone that adds no child to the new value object
clone_empty(h, new_container, kids) == Ok(h, new_container)

\* _basic_setting_list::clone, _basic_setting_array::clone,
\* _basic_setting_container::clone: every child of the original is added to
\* the new value object, whose m_container is new_container
clone(h, new_container, kids) ==
    IF kids = <<>> THEN Ok(h, new_container)
    ELSE LET r == value_add(h, new_container, Head(kids))
         IN  IF r.err # "none" THEN r
             ELSE clone(r.h, new_container, Tail(kids))

\* _basic_setting_list::add without "v->m_parent = m_container"
list_add_orphan(h, t, value) ==
    LET r == copy_setting(h, value)
    IN  IF r.err # "none" THEN Throw(h, r.err)
        ELSE Ok([ r.h EXCEPT ![t].kids = Append(@, r.node) ], r.node)

\* _basic_setting_list::add
list_add(h, t, value) ==
    LET r == copy_setting(h, value)
    IN  IF r.err # "none" THEN Throw(h, r.err)
        ELSE Ok([ r.h EXCEPT ![r.node].parent = t,
                             ![t].kids = Append(@, r.node) ], r.node)

\* _basic_setting_array::add without its two checks
array_add_unchecked(h, t, value) == list_add(h, t, value)

\* _basic_setting_array::add with the checks made after the insertion
array_add_late(h, t, value) ==
    LET r == list_add(h, t, value)
    IN  IF r.err # "none" THEN r
        ELSE IF ~isScalar(value.type) \/ h[r.h[t].kids[1]].type # value.type
        THEN [ r EXCEPT !.err = "SettingTypeException" ]
        ELSE r

\* _basic_setting_array::add
array_add(h, t, value) ==
    IF ~isScalar(value.type) THEN Throw(h, "SettingTypeException")
    ELSE IF Len(h[t].kids) # 0 /\ h[h[t].kids[1]].type # value.type
         THEN Throw(h, "SettingTypeException")
    ELSE list_add(h, t, value)

\* _basic_setting_container::add without the count check: std::map::insert
\* leaves the map as it is and the new object is released
container_add_unchecked(h, t, value) ==
    LET r == copy_setting(h, value)
    IN  IF r.err # "none" THEN Throw(h, r.err)
        ELSE IF count(h, t, value.name) > 0 THEN Ok(h, r.node)
        ELSE Ok([ r.h EXCEPT ![r.node].parent = t,
                             ![t].kids = map_insert(r.h, @, r.node) ], r.node)

\* _basic_setting_container::add
container_add(h, t, value) ==
    IF count(h, t, value.name) > 0 THEN Throw(h, "SettingNameException")
    ELSE LET r == copy_setting(h, value)
         IN  IF r.err # "none" THEN Throw(h, r.err)
             ELSE Ok([ r.h EXCEPT ![r.node].parent = t,
                                  ![t].kids = map_insert(r.h, @, r.node) ], r.node)

\* m_value->add(value): the virtual call; a scalar has _basic_setting::add
value_add(h, t, value) ==
    CASE h[t].type = "TypeGroup" -> container_add(h, t, value)
      [] h[t].type = "TypeList" -> list_add(h, t, value)
      [] h[t].type = "TypeArray" -> array_add(h, t, value)
      [] OTHER -> Throw(h, "ConfigException")

\* _basic_setting_container::remove(const string_type&); a list, an array and
\* a scalar have _basic_setting::remove(const string_type&)
remove_name(h, t, property) ==
    IF h[t].type = "TypeGroup" /\ count(h, t, property) > 0
    THEN LET k == CHOOSE i \in 1..Len(h[t].kids) : h[h[t].kids[i]].name = property
         IN  Ok([ destroy(h, h[t].kids[k]) EXCEPT ![t].kids = RemoveAt(@, k) ], NoNode)
    ELSE Throw(h, "SettingNotFoundException")

\* a remove(size_t) that erases the last child, whatever the index
remove_index_last(h, t, index) ==
    IF h[t].type \in AggregateTypes /\ index < Len(h[t].kids)
    THEN Ok([ destroy(h, h[t].kids[Len(h[t].kids)])
                EXCEPT ![t].kids = RemoveAt(@, Len(h[t].kids)) ], NoNode)
    ELSE Throw(h, "SettingNotFoundException")

\* _basic_setting_list::remove(size_t), _basic_setting_container::remove(size_t)
\* (at(index), then erase of that child's name); a scalar has
\* _basic_setting::remove(size_t)
remove_index(h, t, index) ==
    IF h[t].type \in {"TypeList", "TypeArray"}
    THEN IF index >= Len(h[t].kids) THEN Throw(h, "SettingNotFoundException")
         ELSE Ok([ destroy(h, h[t].kids[index + 1])
                     EXCEPT ![t].kids = RemoveAt(@, index + 1) ], NoNode)
    ELSE IF h[t].type = "TypeGroup"
    THEN IF index < Len(h[t].kids)
         THEN remove_name(h, t, h[h[t].kids[index + 1]].name)
         ELSE Throw(h, "SettingNotFoundException")
    ELSE Throw(h, "SettingNotFoundException")

----------------------------------------------------------------------------
(* Paths *)

\* string_type::find_first_of('.') and find_last_of('.'): the position,
\* counted from 1, or 0 for npos
find_first_of_dot(path) ==
    IF \E i \in 1..Len(path) : path[i] = "."
    THEN CHOOSE i \in 1..Len(path) : path[i] = "." /\ \A j \in 1..(i-1) : path[j] # "."
    ELSE 0

find_last_of_dot(path) ==
    IF \E i \in 1..Len(path) : path[i] = "."
    THEN CHOOSE i \in 1..Len(path) : path[i] = "." /\ \A j \in (i+1)..Len(path) : path[j] # "."
    ELSE 0

_long_path(path) == find_first_of_dot(path) # 0

_local(path) ==
    IF _long_path(path) THEN SubSeq(path, 1, find_first_of_dot(path) - 1) ELSE path

_remote(path) ==
    IF _long_path(path) THEN SubSeq(path, find_first_of_dot(path) + 1, Len(path))
    ELSE <<>>

_parent(path) ==
    IF _long_path(path) THEN SubSeq(path, 1, find_last_of_dot(path) - 1) ELSE <<>>

_leaf(path) ==
    IF _long_path(path) THEN SubSeq(path, find_last_of_dot(path) + 1, Len(path))
    ELSE path

isdigit(c) == Ascii(c) >= Ascii("0") /\ Ascii(c) <= Ascii("9")

\* the number a run of decimal digits reads as
RECURSIVE DecimalValue(_)
DecimalValue(digits) ==
    IF digits = <<>> THEN 0
    ELSE 10 * DecimalValue(SubSeq(digits, 1, Len(digits) - 1))
         + (Ascii(digits[Len(digits)]) - Ascii("0"))

\* _convert_index: the whole path matches \[\d+\]\.? and the digits after
\* the bracket are read as the index
_convert_index(path) ==
    LET n == IF Len(path) > 0 /\ path[Len(path)] = "." THEN Len(path) - 1 ELSE Len(path)
        matches == /\ n >= 3
                   /\ path[1] = "["
                   /\ path[n] = "]"
                   /\ \A i \in 2..(n-1) : isdigit(path[i])
    IN  IF matches THEN [ ok |-> TRUE, index |-> DecimalValue(SubSeq(path, 2, n - 1)) ]
        ELSE [ ok |-> FALSE, index |-> 0 ]

\* the result of a lookup: the node found, or the exception and the path it carries
Found(n) == [ err |-> "none", node |-> n, path |-> <<>> ]
NotFound(path) == [ err |-> "SettingNotFoundException", node |-> NoNode, path |-> path ]

\* the text of a number in decimal (operator<< of an unsigned value)
RECURSIVE DecimalText(_)
DecimalText(n) ==
    IF n < 10 THEN << AsciiChars[Ascii("0") - 31 + n] >>
    ELSE DecimalText(n \div 10) \o << AsciiChars[Ascii("0") - 31 + (n % 10)] >>

\* m_value->at(size_t): _basic_setting_list::at, _basic_setting_container::at,
\* _basic_setting::at for a scalar
at_index(h, t, index) ==
    IF h[t].type \in AggregateTypes /\ index < Len(h[t].kids)
    THEN Found(h[t].kids[index + 1])
    ELSE NotFound(<<"[">> \o DecimalText(index) \o <<"]">>)

\* m_value->at(const string_type&): _basic_setting_container::at; a list, an
\* array and a scalar have _basic_setting::at
at_name(h, t, property) ==
    IF h[t].type = "TypeGroup" /\ count(h, t, property) > 0
    THEN Found(h[t].kids[CHOOSE i \in 1..Len(h[t].kids) : h[h[t].kids[i]].name = property])
    ELSE NotFound(property)

\* basic_setting::_at
RECURSIVE _at(_, _, _)

\* an _at without the catch: the exception of the innermost at() passes
\* through with the component it names
_at_uncaught(h, t, path) ==
    IF path = <<>> THEN Found(t)
    ELSE IF ~_long_path(path)
    THEN IF _convert_index(path).ok
         THEN at_index(h, t, _convert_index(path).index)
         ELSE at_name(h, t, path)
    ELSE LET Below(child) ==
                 IF child.err # "none" THEN child ELSE _at(h, child.node, _remote(path))
         IN  Below(IF _convert_index(_local(path)).ok
                   THEN at_index(h, t, _convert_index(_local(path)).index)
                   ELSE at_name(h, t, _local(path)))

_at(h, t, path) ==
    IF path = <<>> THEN Found(t)
    ELSE LET r == IF ~_long_path(path)
                  THEN IF _convert_index(path).ok
                       THEN at_index(h, t, _convert_index(path).index)
                       ELSE at_name(h, t, path)
                  ELSE LET local == _local(path)
                           remote == _remote(path)
                           child == IF _convert_index(local).ok
                                    THEN at_index(h, t, _convert_index(local).index)
                                    ELSE at_name(h, t, local)
                       IN  IF child.err # "none" THEN child
                           ELSE _at(h, child.node, remote)
         IN  IF r.err = "SettingNotFoundException" THEN NotFound(path) ELSE r

\* basic_setting::getPath
RECURSIVE getPath(_, _)
getPath(h, s) ==
    LET up == IF h[s].parent # NoNode THEN getPath(h, h[s].parent) ELSE <<>>
        dotted == IF Len(up) > 0 THEN Append(up, ".") ELSE up
    IN  dotted \o h[s].name

\* basic_setting::_check_path: the exception it raises, "none" when it returns
_check_path(path) ==
    IF path = <<>> THEN "invalid_argument"
    ELSE IF path[1] = "." \/ path[Len(path)] = "." THEN "invalid_argument"
    ELSE "none"

\* basic_setting::remove(const string_type& path)
remove_path(h, t, path) ==
    IF _check_path(path) # "none" THEN Throw(h, _check_path(path))
    ELSE LET r == _at(h, t, _parent(path))
         IN  IF r.err # "none" THEN Throw(h, r.err)
             ELSE remove_name(h, r.node, _leaf(path))

\* basic_setting::operator[](const string_type& index)
operator_index(h, t, index) == _at(h, t, index)

\* m_value->exists(size_t): _basic_setting_list::exists and
\* _basic_setting_container::exists; _basic_setting::exists for a scalar
exists_index(h, t, index) == h[t].type \in AggregateTypes /\ index < Len(h[t].kids)

\* m_value->exists(const string_type&): _basic_setting_container::exists;
\* _basic_setting::exists for a list, an array and a scalar
exists_name(h, t, property) == h[t].type = "TypeGroup" /\ count(h, t, property) > 0

\* basic_setting::_exists; in a long path it is the whole path, not its
\* first component, that _convert_index is given
RECURSIVE _exists(_, _, _)
_exists(h, t, path) ==
    IF ~_long_path(path)
    THEN IF _convert_index(path).ok
         THEN exists_index(h, t, _convert_index(path).index)
         ELSE exists_name(h, t, path)
    ELSE IF _convert_index(path).ok
         THEN /\ exists_index(h, t, _convert_index(path).index)
              /\ _exists(h, at_index(h, t, _convert_index(path).index).node, _remote(path))
         ELSE /\ exists_name(h, t, _local(path))
              /\ _exists(h, at_name(h, t, _local(path)).node, _remote(path))

\* basic_setting::exists(const string_type& path): what it returns, or the
\* exception it raises
exists(h, t, path) ==
    IF _check_path(path) # "none" THEN [ err |-> _check_path(path), val |-> FALSE ]
    ELSE [ err |-> "none", val |-> _exists(h, t, path) ]

\* basic_setting::isRoot
isRoot(h, s) == h[s].parent = NoNode

\* basic_setting::operator==(const basic_setting&): the names, the types and
\* the values are compared; the value of a scalar is its payload, that of a
\* List, an Array or a Group its children, one by one in iteration order
RECURSIVE operator_eq(_, _, _)
operator_eq(h, s, other) ==
    /\ h[s].name = h[other].name
    /\ h[s].type = h[other].type
    /\ IF isScalar(h[s].type) THEN h[s].val = h[other].val
       ELSE /\ Len(h[s].kids) = Len(h[other].kids)
            /\ \A i \in 1..Len(h[s].kids) :
                   operator_eq(h, h[s].kids[i], h[other].kids[i])

\* basic_setting::indexOf through m_value->indexOf: the position of the
\* first child that operator== finds equal to child, -1 when there is none;
\* _basic_setting::indexOf for a scalar
indexOf(h, t, child) ==
    LET equal == { i \in 1..Len(h[t].kids) : operator_eq(h, child, h[t].kids[i]) }
    IN  IF h[t].type \in AggregateTypes /\ equal # {}
        THEN (CHOOSE i \in equal : \A j \in equal : i <= j) - 1
        ELSE -1

\* basic_setting::getIndex
getIndex(h, s) == IF h[s].parent # NoNode THEN indexOf(h, h[s].parent, s) ELSE -1

----------------------------------------------------------------------------
(* Scalars *)

RECURSIVE Pow2(_)
Pow2(n) == IF n = 0 THEN 1 ELSE 2 * Pow2(n - 1)

\* std::numeric_limits<int>, <unsigned int>, <long>, <unsigned long>
INT_MAX == Pow2(IntBits - 1) - 1
INT_MIN == -Pow2(IntBits - 1)
UINT_MAX == Pow2(IntBits) - 1
LONG_MAX == Pow2(LongBits - 1) - 1
LONG_MIN == -Pow2(LongBits - 1)

\* static_cast<int>(long): the low bits, as a signed value
ToInt(n) == ((n - INT_MIN) % Pow2(IntBits)) + INT_MIN

\* the result of reading or assigning a scalar
Value(v) == [ err |-> "none", val |-> v ]
TypeEx == [ err |-> "SettingTypeException", val |-> NoVal ]

\* _basic_setting_scalar<T>::assignValue(bool) and the other overloads, T the
\* type of the setting; an aggregate has _basic_setting::assignValue.  A
\* float of the model holds a whole number, so that the casts between float
\* and the integer types keep the value.
assignValue_bool(type, value) ==
    CASE type = "TypeBoolean" -> Value(BoolVal(value))
      [] type = "TypeInt" -> Value(NumVal(1))
      [] type = "TypeInt64" -> Value(NumVal(1))
      [] OTHER -> TypeEx

assignValue_int(type, value) ==
    CASE type = "TypeBoolean" -> Value(BoolVal(value # 0))
      [] type = "TypeInt" -> Value(NumVal(value))
      [] type = "TypeInt64" -> Value(NumVal(value))
      [] type = "TypeFloat" -> Value(NumVal(value))
      [] OTHER -> TypeEx

assignValue_long(type, value) ==
    CASE type = "TypeBoolean" -> Value(BoolVal(value # 0))
      [] type = "TypeInt" -> Value(NumVal(ToInt(value)))
      [] type = "TypeInt64" -> Value(NumVal(value))
      [] type = "TypeFloat" -> Value(NumVal(value))
      [] OTHER -> TypeEx

assignValue_float(type, value) ==
    CASE type = "TypeInt" -> Value(NumVal(Truncate(value)))
      [] type = "TypeInt64" -> Value(NumVal(Truncate(value)))
      [] type = "TypeFloat" -> Value(FloatVal(value.n, value.e))
      [] OTHER -> TypeEx

\* an assignValue(const string_type&) that stores the string whatever T is
assignValue_string_untyped(type, value) == Value(StrVal(value))

assignValue_string(type, value) ==
    CASE type = "TypeString" -> Value(StrVal(value))
      [] OTHER -> TypeEx

\* the argument of an assignment: its C++ type and its value
assignValue(type, arg) ==
    CASE arg.kind = "bool" -> assignValue_bool(type, arg.b)
      [] arg.kind = "int" -> assignValue_int(type, arg.n)
      [] arg.kind = "long" -> assignValue_long(type, arg.n)
      [] arg.kind = "float" -> assignValue_float(type, FloatVal(arg.n, arg.e))
      [] arg.kind = "string" -> assignValue_string(type, arg.s)

\* _basic_setting_scalar<T>::lookupValue(long&)
lookupValue_long(type, val) ==
    CASE type = "TypeBoolean" -> Value(NumVal(IF val.b THEN 1 ELSE 0))
      [] type = "TypeInt" -> Value(NumVal(val.n))
      [] type = "TypeInt64" -> Value(NumVal(val.n))
      [] OTHER -> TypeEx

\* lookupValue(unsigned int&) without the check against the maximum: the
\* long is narrowed to unsigned
lookupValue_unsigned_narrowing(type, val) ==
    CASE type \in {"TypeBoolean", "TypeInt", "TypeInt64"} ->
             LET t == lookupValue_long(type, val).val.n
             IN  IF t < 0 THEN TypeEx ELSE Value(NumVal(t % Pow2(IntBits)))
      [] OTHER -> TypeEx

\* lookupValue(bool&) without the case of a Float
lookupValue_bool_no_float(type, val) ==
    CASE type \in {"TypeBoolean", "TypeInt", "TypeInt64"} ->
             Value(BoolVal(lookupValue_long(type, val).val.n # 0))
      [] OTHER -> TypeEx

\* lookupValue(bool&)
lookupValue_bool(type, val) ==
    CASE type \in {"TypeBoolean", "TypeInt", "TypeInt64"} ->
             Value(BoolVal(lookupValue_long(type, val).val.n # 0))
      [] type = "TypeFloat" -> Value(BoolVal(val.n # 0))
      [] OTHER -> TypeEx

\* lookupValue(int&)
lookupValue_int(type, val) ==
    CASE type \in {"TypeBoolean", "TypeInt", "TypeInt64"} ->
             LET t == lookupValue_long(type, val).val.n
             IN  IF t > INT_MAX \/ t < INT_MIN THEN TypeEx ELSE Value(NumVal(t))
      [] OTHER -> TypeEx

\* lookupValue(unsigned int&)
lookupValue_unsigned(type, val) ==
    CASE type \in {"TypeBoolean", "TypeInt", "TypeInt64"} ->
             LET t == lookupValue_long(type, val).val.n
             IN  IF t < 0 THEN TypeEx
                 ELSE IF t > UINT_MAX THEN TypeEx
                 ELSE Value(NumVal(t))
      [] OTHER -> TypeEx

\* lookupValue(unsigned long&)
lookupValue_unsigned_long(type, val) ==
    CASE type \in {"TypeBoolean", "TypeInt", "TypeInt64"} ->
             LET t == lookupValue_long(type, val).val.n
             IN  IF t >= 0 THEN Value(NumVal(t)) ELSE TypeEx
      [] OTHER -> TypeEx

\* lookupValue(float&)
lookupValue_float(type, val) ==
    CASE type \in {"TypeBoolean", "TypeInt", "TypeInt64"} ->
             Value(NumVal(lookupValue_long(type, val).val.n))
      [] type = "TypeFloat" -> Value(FloatVal(val.n, val.e))
      [] OTHER -> TypeEx

\* lookupValue(double&)
lookupValue_double(type, val) ==
    CASE type \in {"TypeBoolean", "TypeInt", "TypeInt64", "TypeFloat"} ->
             lookupValue_float(type, val)
      [] OTHER -> TypeEx

\* lookupValue(string_type&)
lookupValue_string(type, val) ==
    CASE type = "TypeString" -> Value(StrVal(val.s))
      [] OTHER -> TypeEx

\* no conversion operator has been called since the value was stored
NoRead == [ target |-> "none", val |-> NoVal ]

----------------------------------------------------------------------------
(* The tokenizer: class token and class config_tokenizer *)

\* the text of a file is a sequence of characters; next is the position of
\* the character the stream iterator stands on, Len(text) + 1 at its end

\* class token: a string with the line and offset it was found at
Token(text, line, offset) == [ text |-> text, line |-> line, offset |-> offset ]

\* token(): the token a token_iterator holds before the first call
EmptyToken == Token(<<>>, 0, 0)

\* config_tokenizer(): separators("{}[](),/\\\"=:;")
separators == { "{", "}", "[", "]", "(", ")", ",", "/", "\\", "\"", "=", ":", ";" }

is_in_set(c, set) == c \in set

\* isspace in the "C" locale, for the characters of the model
isspace(c) == c \in { " ", "\t", "\n" }

\* config_tokenizer::reset (the member escape is never read)
reset ==
    [ is_string |-> FALSE, new_line |-> FALSE, line |-> 1, offset |-> 1,
      tmp_token |-> <<>> ]

\* config_tokenizer::get: the character read, and the members after it
get(text, z, next) ==
    LET c == text[next]
        z1 == IF z.new_line
              THEN [ z EXCEPT !.line = @ + 1, !.offset = 1, !.new_line = FALSE ]
              ELSE [ z EXCEPT !.offset = @ + 1 ]
        z2 == IF c = "\n" THEN [ z1 EXCEPT !.new_line = TRUE ] ELSE z1
    IN  [ c |-> c, z |-> z2, next |-> next + 1 ]

\* the value 0 that skip_comment returns at the end of the input
NUL == "NUL"

\* config_tokenizer::skip_comment: its loop, with its three local flags
RECURSIVE skip_comment_loop(_, _, _, _, _, _)
skip_comment_loop(text, z, next, simple_comment, complicated_comment, escape) ==
    LET \* "/" has been read, and then g2
        Second(g2) ==
            IF g2.c = "*"
            THEN skip_comment_loop(text, g2.z, g2.next, FALSE, TRUE, escape)
            ELSE IF g2.c = "/"
            THEN skip_comment_loop(text, g2.z, g2.next, TRUE, FALSE, escape)
            ELSE [ c |-> NUL, z |-> g2.z, next |-> g2.next, err |-> "ParseException" ]
        \* g has been read
        First(g) ==
            IF g.z.is_string
            THEN [ c |-> g.c, z |-> g.z, next |-> g.next, err |-> "none" ]
            ELSE IF complicated_comment
            THEN skip_comment_loop(text, g.z, g.next, simple_comment,
                                   ~(g.c = "/" /\ escape), ~(g.c = "/" /\ escape) /\ g.c = "*")
            ELSE IF simple_comment
            THEN skip_comment_loop(text, g.z, g.next, g.c # "\n", FALSE, escape)
            ELSE IF g.c = "#"
            THEN skip_comment_loop(text, g.z, g.next, TRUE, FALSE, escape)
            ELSE IF g.c = "/"
            THEN IF g.next > Len(text)
                 THEN [ c |-> NUL, z |-> g.z, next |-> g.next, err |-> "ParseException" ]
                 ELSE Second(get(text, g.z, g.next))
            ELSE [ c |-> g.c, z |-> g.z, next |-> g.next, err |-> "none" ]
    IN  IF next > Len(text) THEN [ c |-> NUL, z |-> z, next |-> next, err |-> "none" ]
        ELSE First(get(text, z, next))

skip_comment(text, z, next) == skip_comment_loop(text, z, next, FALSE, FALSE, FALSE)

\* what a call of the tokenizer leaves: its return value, the token, the
\* members, the stream position and the exception it raised
Scanned(ret, tok, z, next) ==
    [ ret |-> ret, tok |-> tok, z |-> z, next |-> next, err |-> "none" ]
ScanError(tok, z, next) ==
    [ ret |-> FALSE, tok |-> tok, z |-> z, next |-> next, err |-> "ParseException" ]

\* config_tokenizer::operator(): its while loop, with its two local flags
RECURSIVE scan(_, _, _, _, _, _)
scan(text, z, next, tok, escape, is_identifier) ==
    LET \* the character c that skip_comment returned, the members z1 and the
        \* stream position next1 it left
        Char(c, z1, next1) ==
            IF c = NUL THEN Scanned(FALSE, tok, z1, next1)
            ELSE IF z1.is_string
            THEN IF c = "\"" /\ ~escape
                 THEN Scanned(TRUE, [ tok EXCEPT !.text = Append(@, c) ],
                              [ z1 EXCEPT !.is_string = FALSE ], next1)
                 ELSE IF escape /\ c \notin { "\\", "\"", "t", "n" }
                 THEN ScanError(tok, z1, next1)
                 ELSE scan(text, z1, next1,
                           IF escape
                           THEN [ tok EXCEPT !.text =
                                    Append(@, IF c = "t" THEN "\t"
                                              ELSE IF c = "n" THEN "\n" ELSE c) ]
                           ELSE IF c = "\\" THEN tok
                           ELSE [ tok EXCEPT !.text = Append(@, c) ],
                           ~escape /\ c = "\\", is_identifier)
            ELSE IF c = "\""
            THEN scan(text, [ z1 EXCEPT !.is_string = TRUE ], next1,
                      Token(<<c>>, z1.line, z1.offset), escape, is_identifier)
            ELSE IF is_identifier
            THEN IF isspace(c) THEN Scanned(TRUE, tok, z1, next1)
                 ELSE IF is_in_set(c, separators)
                 THEN Scanned(TRUE, tok, [ z1 EXCEPT !.tmp_token = <<c>> ], next1)
                 ELSE scan(text, z1, next1, [ tok EXCEPT !.text = Append(@, c) ],
                           escape, is_identifier)
            ELSE IF is_in_set(c, separators)
            THEN Scanned(TRUE, Token(<<c>>, z1.line, z1.offset), z1, next1)
            ELSE IF ~isspace(c)
            THEN scan(text, z1, next1, Token(<<c>>, z1.line, z1.offset), escape, TRUE)
            ELSE scan(text, z1, next1, tok, escape, is_identifier)
        Skipped(s) ==
            IF s.err # "none" THEN ScanError(tok, s.z, s.next)
            ELSE Char(s.c, s.z, s.next)
    IN  IF next > Len(text) THEN Scanned(FALSE, tok, z, next)
        ELSE Skipped(skip_comment(text, z, next))

\* config_tokenizer::operator()
config_tokenizer(text, z, next, tok) ==
    IF z.tmp_token # <<>>
    THEN Scanned(TRUE, Token(z.tmp_token, z.line, z.offset),
                 [ z EXCEPT !.tmp_token = <<>> ], next)
    ELSE scan(text, z, next, tok, FALSE, FALSE)

\* boost::token_iterator::initialize (tokenizer::begin()): the function is
\* reset and called once, unless the stream is at its end
initialize(text) ==
    IF Len(text) = 0 THEN Scanned(FALSE, EmptyToken, reset, 1)
    ELSE config_tokenizer(text, reset, 1, EmptyToken)

\* boost::token_iterator::increment: valid_ = f_(begin_, end_, tok_)
increment(text, it) == config_tokenizer(text, it.z, it.next, it.tok)

\* all the tokens a token_iterator yields on text, or the exception
RECURSIVE tokens_from(_, _, _)
tokens_from(text, it, acc) ==
    IF it.err # "none" THEN [ err |-> it.err, tokens |-> acc ]
    ELSE IF ~it.ret THEN [ err |-> "none", tokens |-> acc ]
    ELSE tokens_from(text, increment(text, it), Append(acc, it.tok))

tokenize(text) == tokens_from(text, initialize(text), <<>>)

\* the strings of a token array
Texts(tokens) == [ i \in 1..Len(tokens) |-> tokens[i].text ]

----------------------------------------------------------------------------
(* Files and the include-expanding parser: class parser *)

\* A file system is a function from the absolute paths of its regular files
\* to their texts.  The names of the files of the model are made of letters,
\* so that a name used as a regular expression matches itself only.

\* string_type::find_last_of('/'): the position, counted from 1, 0 for npos
find_last_of_slash(path) ==
    IF \E i \in 1..Len(path) : path[i] = "/"
    THEN CHOOSE i \in 1..Len(path) : path[i] = "/" /\ \A j \in (i+1)..Len(path) : path[j] # "/"
    ELSE 0

\* boost::filesystem::path::parent_path and filename of a file of fs
Directory(path) == SubSeq(path, 1, find_last_of_slash(path) - 1)
Filename(path) == SubSeq(path, find_last_of_slash(path) + 1, Len(path))

\* boost::filesystem::current_path(), the default of m_include_dir
current_path == << "/", "d" >>

\* _construct_path
_construct_path(filename, include_dir) ==
    IF filename = <<>> THEN [ err |-> "invalid_argument", path |-> <<>> ]
    ELSE IF filename[1] = "/" THEN [ err |-> "none", path |-> filename ]
    ELSE [ err |-> "none", path |-> include_dir \o <<"/">> \o filename ]

\* _remove_quotes
_remove_quotes(value) ==
    IF value # <<>> /\ value[1] = "\"" /\ Len(value) > 2
    THEN SubSeq(value, 2, Len(value) - 1)
    ELSE value

\* boost::regex_match(filename, regex("^" + pattern + "$")) for a pattern
\* made of letters
regex_match_name(filename, pattern) == filename = pattern

\* the result of parse() and include(): the tokens or the exception
Tokens(tokens) == [ err |-> "none", tokens |-> tokens ]
Raise(e) == [ err |-> e, tokens |-> <<>> ]

\* the files a parser at m_deep_level = level finds open: its own stream and
\* the stream of every parser it was included from
RECURSIVE parser_parse(_, _, _, _)
RECURSIVE parse_loop(_, _, _, _, _, _, _, _)
RECURSIVE include(_, _, _, _)
RECURSIVE include_files(_, _, _, _, _)

\* parser::parser and parser::parse.  m_stream(file->c_str()) is not checked:
\* a file that cannot be opened (it does not exist, or no descriptor is
\* left) reads as a stream at its end.
parser_parse(fs, file, include_dir, level) ==
    LET Open(text) ==
            parse_loop(fs, file, include_dir, level, text, initialize(text), FALSE, <<>>)
    IN  Open(IF file \in DOMAIN fs /\ level < MaxOpenFiles THEN fs[file] ELSE <<>>)

\* the while loop of parser::parse: "token tok = *it++" takes the token the
\* iterator holds and advances the iterator before the token is looked at;
\* a ParseException is rethrown as a ParseException (with the file name)
parse_loop(fs, file, include_dir, level, text, it, is_include, tokens) ==
    LET Included(inc, nxt) ==
            IF inc.err # "none" THEN Raise(inc.err)
            ELSE parse_loop(fs, file, include_dir, level, text, nxt, FALSE,
                            tokens \o inc.tokens)
        Step(tok, nxt) ==
            IF nxt.err # "none" THEN Raise(nxt.err)
            ELSE IF is_include
            THEN Included(include(fs, tok.text, include_dir, level), nxt)
            ELSE parse_loop(fs, file, include_dir, level, text, nxt,
                            tok.text = << "@", "i", "n", "c", "l", "u", "d", "e" >>,
                            IF tok.text = << "@", "i", "n", "c", "l", "u", "d", "e" >>
                            THEN tokens ELSE Append(tokens, tok))
    IN  IF it.err # "none" THEN Raise(it.err)
        ELSE IF ~it.ret THEN Tokens(tokens)
        ELSE Step(it.tok, increment(text, it))

\* parser::include.  The directory_iterator needs a descriptor of its own
\* while it lists the directory (boost::filesystem::filesystem_error when
\* none is left or the directory does not exist); m_deep_level + 1 is handed
\* to the parsers of the files found and never compared with anything.
include(fs, _path, include_dir, level) ==
    LET Matching(found) ==
            include_files(fs, IF found = {} THEN <<>> ELSE << CHOOSE f \in found : TRUE >>,
                          include_dir, level, <<>>)
        Listed(directory, pattern) ==
            IF level + 1 >= MaxOpenFiles THEN Raise("filesystem_error")
            ELSE IF \A f \in DOMAIN fs : Directory(f) # directory
            THEN Raise("filesystem_error")
            ELSE Matching({ f \in DOMAIN fs : /\ Directory(f) = directory
                                              /\ regex_match_name(Filename(f), pattern) })
        Split(path, delimiter) ==
            IF delimiter = 0 THEN include_files(fs, <<path>>, include_dir, level, <<>>)
            ELSE IF delimiter < Len(path)
            THEN Listed(SubSeq(path, 1, delimiter - 1), SubSeq(path, delimiter + 1, Len(path)))
            ELSE Raise("FileIOException")
        Constructed(c) ==
            IF c.err # "none" THEN Raise(c.err)
            ELSE Split(c.path, find_last_of_slash(c.path))
    IN  Constructed(_construct_path(_remove_quotes(_path), include_dir))

\* the for loop of parser::include over the files found
include_files(fs, files, include_dir, level, tokens) ==
    LET Parsed1(r) ==
            IF r.err # "none" THEN r
            ELSE include_files(fs, Tail(files), include_dir, level, tokens \o r.tokens)
    IN  IF files = <<>> THEN Tokens(tokens)
        ELSE Parsed1(parser_parse(fs, Head(files), include_dir, level + 1))

\* _concat_string: adjacent string literals become one
RECURSIVE _concat_string_loop(_, _, _)
_concat_string_loop(tokens, i, result) ==
    IF i > Len(tokens) THEN result
    ELSE LET prev == result[Len(result)]
             cur == tokens[i]
         IN  IF prev.text[1] = "\"" /\ cur.text[1] = "\""
             THEN _concat_string_loop(tokens, i + 1,
                      [ result EXCEPT ![Len(result)].text =
                          SubSeq(@, 1, Len(@) - 1) \o SubSeq(cur.text, 2, Len(cur.text)) ])
             ELSE _concat_string_loop(tokens, i + 1, Append(result, cur))

_concat_string(tokens) == _concat_string_loop(tokens, 2, <<tokens[1]>>)

----------------------------------------------------------------------------
(* Scalar literals: _get_scalar_type and _get_scalar_item *)

Digits == { "0", "1", "2", "3", "4", "5", "6", "7", "8", "9" }
HexDigits == Digits \cup { "a", "b", "c", "d", "e", "f", "A", "B", "C", "D", "E", "F" }
Signs == { "-", "+" }

AllIn(text, set) == \A i \in 1..Len(text) : text[i] \in set

\* text without the sign it may begin with
Unsigned(text) == IF text # <<>> /\ text[1] \in Signs THEN Tail(text) ELSE text

\* text without the L or LL it ends with
WithoutSuffix(text) ==
    IF Len(text) >= 2 /\ text[Len(text)] = "L" /\ text[Len(text) - 1] = "L"
    THEN SubSeq(text, 1, Len(text) - 2)
    ELSE IF Len(text) >= 1 /\ text[Len(text)] = "L" THEN SubSeq(text, 1, Len(text) - 1)
    ELSE text

\* the letters of text in lower case, for the letters of true and false
ToLower(text) ==
    [ i \in 1..Len(text) |->
        CASE text[i] = "T" -> "t" [] text[i] = "R" -> "r" [] text[i] = "U" -> "u"
          [] text[i] = "E" -> "e" [] text[i] = "F" -> "f" [] text[i] = "A" -> "a"
          [] text[i] = "L" -> "l" [] text[i] = "S" -> "s" [] OTHER -> text[i] ]

\* regex_match with rx_boolean, rx_int, rx_hex, rx_int64, rx_hex64
rx_boolean(value) == ToLower(value) \in { <<"t", "r", "u", "e">>, <<"f", "a", "l", "s", "e">> }
rx_int(value) == Unsigned(value) # <<>> /\ AllIn(Unsigned(value), Digits)
rx_hex(value) ==
    /\ Len(value) >= 3
    /\ value[1] = "0"
    /\ value[2] \in { "x", "X" }
    /\ AllIn(SubSeq(value, 3, Len(value)), HexDigits)
rx_int64(value) == WithoutSuffix(value) # value /\ rx_int(WithoutSuffix(value))
rx_hex64(value) == WithoutSuffix(value) # value /\ rx_hex(WithoutSuffix(value))

\* the position of the first e or E of text, 0 when it has none
ExponentAt(text) ==
    IF \E i \in 1..Len(text) : text[i] \in { "e", "E" }
    THEN CHOOSE i \in 1..Len(text) :
             text[i] \in { "e", "E" } /\ \A j \in 1..(i-1) : text[j] \notin { "e", "E" }
    ELSE 0

\* the position of the first '.' of text, 0 when it has none
PointAt(text) == find_first_of_dot(text)

\* the parts of a floating literal: the digits before and after the point
\* and the exponent with its sign
Mantissa(value) ==
    LET u == Unsigned(value)
    IN  IF ExponentAt(u) = 0 THEN u ELSE SubSeq(u, 1, ExponentAt(u) - 1)
Exponent(value) ==
    LET u == Unsigned(value)
    IN  IF ExponentAt(u) = 0 THEN <<>> ELSE SubSeq(u, ExponentAt(u) + 1, Len(u))
WholeDigits(value) ==
    LET m == Mantissa(value)
    IN  IF PointAt(m) = 0 THEN m ELSE SubSeq(m, 1, PointAt(m) - 1)
Decimals(value) ==
    LET m == Mantissa(value)
    IN  IF PointAt(m) = 0 THEN <<>> ELSE SubSeq(m, PointAt(m) + 1, Len(m))

\* regex_match with rx_float: digits with a point and maybe an exponent, or
\* digits, maybe a point and digits, and an exponent
rx_float(value) ==
    LET m == Mantissa(value)
        hasExponent == ExponentAt(Unsigned(value)) # 0
        exponentOk == rx_int(Exponent(value))
    IN  /\ AllIn(WholeDigits(value), Digits)
        /\ AllIn(Decimals(value), Digits)
        /\ hasExponent => exponentOk
        /\ \/ PointAt(m) # 0
           \/ hasExponent /\ WholeDigits(value) # <<>>

\* a _get_scalar_type without rx_hex and rx_hex64
_get_scalar_type_decimal(value) ==
    IF value[1] = "\"" THEN "TypeString"
    ELSE IF rx_boolean(value) THEN "TypeBoolean"
    ELSE IF rx_int(value) THEN "TypeInt"
    ELSE IF rx_int64(value) THEN "TypeInt64"
    ELSE IF rx_float(value) THEN "TypeFloat"
    ELSE "TypeGroup"

\* _get_scalar_type; TypeGroup stands for "not a scalar literal"
_get_scalar_type(value) ==
    IF value[1] = "\"" THEN "TypeString"
    ELSE IF rx_boolean(value) THEN "TypeBoolean"
    ELSE IF rx_int(value) THEN "TypeInt"
    ELSE IF rx_hex(value) THEN "TypeInt"
    ELSE IF rx_int64(value) THEN "TypeInt64"
    ELSE IF rx_hex64(value) THEN "TypeInt64"
    ELSE IF rx_float(value) THEN "TypeFloat"
    ELSE "TypeGroup"

\* the value of a hexadecimal digit, and of a run of them
HexDigitValue(c) ==
    IF c \in Digits THEN Ascii(c) - Ascii("0")
    ELSE IF Ascii(c) >= Ascii("a") THEN Ascii(c) - Ascii("a") + 10
    ELSE Ascii(c) - Ascii("A") + 10

RECURSIVE HexValue(_)
HexValue(digits) ==
    IF digits = <<>> THEN 0
    ELSE 16 * HexValue(SubSeq(digits, 1, Len(digits) - 1)) + HexDigitValue(digits[Len(digits)])

\* The language standards a build may follow, and what an uninitialised
\* local variable holds.  An extraction "iss >> v" that fails stores 0, or
\* the nearest limit after an overflow, since C++11; before, it leaves v as
\* it was, and v was never initialised.
Builds ==
    { [ std |-> "c++11", junk |-> 0 ],
      [ std |-> "c++03", junk |-> 0 ],
      [ std |-> "c++03", junk |-> 1 ] }

\* iss >> v for an int or a long v: the number read lies in lo..hi or not
Extract(n, lo, hi, build) ==
    IF lo <= n /\ n <= hi THEN n
    ELSE IF build.std = "c++11" THEN (IF n > hi THEN hi ELSE lo)
    ELSE build.junk

\* the number a decimal or hexadecimal integer literal (without its suffix)
\* denotes
LiteralValue(value) ==
    IF rx_hex(value) THEN HexValue(SubSeq(value, 3, Len(value)))
    ELSE IF value[1] = "-" THEN -DecimalValue(Unsigned(value))
    ELSE DecimalValue(Unsigned(value))

\* iss >> v for a bool v without boolalpha: a token that does not begin
\* with a digit fails
ExtractBool(value, build) ==
    IF build.std = "c++11" THEN FALSE ELSE build.junk # 0

\* iss >> v for a float v: a mantissa without any digit fails
ExtractFloat(value, build) ==
    LET digits == WholeDigits(value) \o Decimals(value)
        sign == IF value[1] = "-" THEN -1 ELSE 1
        exponent == IF Exponent(value) = <<>> THEN 0 ELSE LiteralValue(Exponent(value))
    IN  IF digits = <<>>
        THEN FloatVal(IF build.std = "c++11" THEN 0 ELSE build.junk, 0)
        ELSE FloatVal(sign * DecimalValue(digits), exponent - Len(Decimals(value)))

\* the result of the parser functions that build one setting: the setting
\* (a value tree), the iterator begin after it, the exception
Parsed(setting, begin) == [ err |-> "none", setting |-> setting, begin |-> begin ]
ParseError(e) == [ err |-> e, setting |-> NewSetting(<<>>, "TypeGroup"), begin |-> 0 ]

\* _get_scalar_item: the setting name = value, the value converted by the
\* stream extraction and stored by operator=
_get_scalar_item(name, value, build) ==
    LET Store(type, r, hex) ==
            Parsed([ NewSetting(name, type) EXCEPT
                       !.val = r.val,
                       !.fmt = IF hex THEN "FormatHex" ELSE "FormatDefault" ], 0)
        Typed(type) ==
            CASE type = "TypeString" ->
                     Store(type, assignValue_string(type, _remove_quotes(value)), FALSE)
              [] type = "TypeBoolean" ->
                     Store(type, assignValue_bool(type, ExtractBool(value, build)), FALSE)
              [] type = "TypeInt" ->
                     Store(type,
                            assignValue_int(type, Extract(LiteralValue(value),
                                                          INT_MIN, INT_MAX, build)),
                            rx_hex(value))
              [] type = "TypeInt64" ->
                     Store(type,
                            assignValue_long(type, Extract(LiteralValue(WithoutSuffix(value)),
                                                           LONG_MIN, LONG_MAX, build)),
                            rx_hex64(value))
              [] type = "TypeFloat" ->
                     Store(type, assignValue_float(type, ExtractFloat(value, build)), FALSE)
              [] OTHER -> ParseError("ParseException")
    IN  Typed(_get_scalar_type(value))

----------------------------------------------------------------------------
(* The grammar: from a token array to settings *)

\* An iterator into the token array toks is a position, Len(toks) + 1 for
\* tokens.end().

\* a temporary basic_setting the parser adds children to: cell 1 of a heap
\* of its own with room for one object per token
Temporary(toks, setting) ==
    [ EmptyHeap(Len(toks) + 1) EXCEPT ![1] =
        [ name |-> setting.name, type |-> setting.type, parent |-> NoNode,
          kids |-> <<>>, val |-> setting.val, fmt |-> setting.fmt ] ]

\* the result of the parser functions that look for a token
At(it) == [ err |-> "none", it |-> it ]
NotAt == [ err |-> "ParseException", it |-> 0 ]

\* _skip_end
_skip_end(toks, begin, end) ==
    IF begin # end /\ toks[begin].text \in { <<";">>, <<",">> } THEN begin + 1 ELSE begin

\* _find_pair: its loop
RECURSIVE _find_pair_loop(_, _, _, _, _, _)
_find_pair_loop(toks, open_token, close_token, _it, end, depth) ==
    IF _it = end THEN NotAt
    ELSE IF toks[_it].text = open_token
    THEN _find_pair_loop(toks, open_token, close_token, _it + 1, end, depth + 1)
    ELSE IF toks[_it].text = close_token
    THEN IF depth = 1 THEN At(_it)
         ELSE _find_pair_loop(toks, open_token, close_token, _it + 1, end, depth - 1)
    ELSE _find_pair_loop(toks, open_token, close_token, _it + 1, end, depth)

\* _find_pair; every caller stands on an open_token, so that the count is never
\* decremented at 0
_find_pair(toks, open_token, close_token, begin, end) ==
    _find_pair_loop(toks, open_token, close_token, begin, end, 0)

\* _find_list_item: its loop
RECURSIVE _find_list_item_loop(_, _, _, _, _, _)
_find_list_item_loop(toks, _it, end, a_brace, g_brace, l_brace) ==
    IF _it = end THEN At(end)
    ELSE LET tok == toks[_it].text
         IN  IF tok = <<"[">>
             THEN _find_list_item_loop(toks, _it + 1, end, a_brace + 1, g_brace, l_brace)
             ELSE IF tok = <<"]">>
             THEN IF a_brace = 0 THEN NotAt
                  ELSE _find_list_item_loop(toks, _it + 1, end, a_brace - 1, g_brace, l_brace)
             ELSE IF tok = <<"{">>
             THEN _find_list_item_loop(toks, _it + 1, end, a_brace, g_brace + 1, l_brace)
             ELSE IF tok = <<"}">>
             THEN IF g_brace = 0 THEN NotAt
                  ELSE _find_list_item_loop(toks, _it + 1, end, a_brace, g_brace - 1, l_brace)
             ELSE IF tok = <<"(">>
             THEN _find_list_item_loop(toks, _it + 1, end, a_brace, g_brace, l_brace + 1)
             ELSE IF tok = <<")">>
             THEN IF l_brace = 0 THEN NotAt
                  ELSE _find_list_item_loop(toks, _it + 1, end, a_brace, g_brace, l_brace - 1)
             ELSE IF tok = <<",">> /\ a_brace = 0 /\ g_brace = 0 /\ l_brace = 0
             THEN At(_it)
             ELSE _find_list_item_loop(toks, _it + 1, end, a_brace, g_brace, l_brace)

_find_list_item(toks, begin, end) == _find_list_item_loop(toks, begin, end, 0, 0, 0)

\* the result of _get_setting_list: the settings, or the exception
Settings(settings) == [ err |-> "none", settings |-> settings ]
NoSettings(e) == [ err |-> e, settings |-> <<>> ]

RECURSIVE _get_setting_list_loop(_, _, _, _, _)
RECURSIVE _get_setting(_, _, _, _, _)
RECURSIVE _get_value(_, _, _, _, _)
RECURSIVE _get_group(_, _, _, _, _)
RECURSIVE _get_list(_, _, _, _, _)
RECURSIVE _get_array(_, _, _, _, _)
RECURSIVE items_loop(_, _, _, _, _)
RECURSIVE _get_list_item(_, _, _, _)
RECURSIVE add_each(_, _, _)

\* "for (i...) result.add(settings[i])" on a temporary
add_each(h, t, settings) ==
    LET Added(r) == IF r.err # "none" THEN r ELSE add_each(r.h, t, Tail(settings))
    IN  IF settings = <<>> THEN Ok(h, t)
        ELSE Added(value_add(h, t, Head(settings)))

\* _get_setting_list: its while loop
_get_setting_list_loop(toks, begin, end, build, settings) ==
    LET Got(r) ==
            IF r.err # "none" THEN NoSettings(r.err)
            ELSE _get_setting_list_loop(toks, r.begin, end, build, Append(settings, r.setting))
    IN  IF begin = end THEN Settings(settings)
        ELSE IF toks[begin].text \in { <<"[">>, <<"]">>, <<"{">>, <<"}">>,
                                       <<",">>, <<"=">>, <<":">> }
        THEN NoSettings("ParseException")
        ELSE Got(_get_setting(toks, toks[begin], begin + 1, end, build))

_get_setting_list(toks, begin, end, build) ==
    _get_setting_list_loop(toks, begin, end, build, <<>>)

\* the if/else chain on the first token of a value, in _get_setting and in
\* _get_list_item: a group, a list, an array or a scalar called name, whose
\* tokens begin at begin
_get_value(toks, name, begin, end, build) ==
    CASE toks[begin].text = <<"{">> -> _get_group(toks, name, begin, end, build)
      [] toks[begin].text = <<"(">> -> _get_list(toks, name, begin, end, build)
      [] toks[begin].text = <<"[">> -> _get_array(toks, name, begin, end, build)
      [] OTHER -> [ _get_scalar_item(name, toks[begin].text, build) EXCEPT !.begin = begin + 1 ]

\* _get_setting
_get_setting(toks, identifier, begin, end, build) ==
    LET Skip(r) ==
            IF r.err # "none" THEN r ELSE Parsed(r.setting, _skip_end(toks, r.begin, end))
    IN  IF begin = end THEN ParseError("ParseException")
        ELSE IF toks[begin].text \notin { <<"=">>, <<":">> } THEN ParseError("ParseException")
        ELSE IF begin + 1 = end THEN ParseError("ParseException")
        ELSE Skip(_get_value(toks, identifier.text, begin + 1, end, build))

\* _get_group; settings is looked at only when the closing brace was found
_get_group(toks, identifier, begin, end, build) ==
    LET Built(result, _end) ==
            IF result.err # "none" THEN ParseError(result.err)
            ELSE Parsed(ToValue(result.h, 1), IF _end # end THEN _end + 1 ELSE _end)
        Body(p, settings) ==
            IF p.err # "none" THEN ParseError(p.err)
            ELSE IF settings.err # "none" THEN ParseError(settings.err)
            ELSE Built(add_each(Temporary(toks, NewSetting(identifier, "TypeGroup")), 1,
                                settings.settings), p.it)
    IN  Body(_find_pair(toks, <<"{">>, <<"}">>, begin, end),
             _get_setting_list(toks, begin + 1,
                               _find_pair(toks, <<"{">>, <<"}">>, begin, end).it, build))

\* the while loop of _get_list and of _get_array: h holds the list or the
\* array in cell 1; item is looked at only when _find_list_item found its end
items_loop(toks, _begin, _end, build, h) ==
    LET Added(added, next) ==
            IF added.err # "none" THEN Throw(h, added.err)
            ELSE items_loop(toks, next, _end, build, added.h)
        Step(_last, f, item) ==
            IF f.err # "none" THEN Throw(h, f.err)
            ELSE IF _last = f.it THEN items_loop(toks, f.it, _end, build, h)
            ELSE IF item.err # "none" THEN Throw(h, item.err)
            ELSE Added(value_add(h, 1, item.setting), f.it)
    IN  IF _begin = _end THEN Ok(h, 1)
        ELSE Step(_begin + 1, _find_list_item(toks, _begin + 1, _end),
                  _get_list_item(toks, _begin + 1,
                                 _find_list_item(toks, _begin + 1, _end).it, build))

\* _get_list; list is looked at only when the closing parenthesis was found
_get_list(toks, identifier, begin, end, build) ==
    LET Items(p, list) ==
            IF p.err # "none" THEN ParseError(p.err)
            ELSE IF list.err # "none" THEN ParseError(list.err)
            ELSE Parsed(ToValue(list.h, 1), IF p.it # end THEN p.it + 1 ELSE p.it)
    IN  Items(_find_pair(toks, <<"(">>, <<")">>, begin, end),
              items_loop(toks, begin, _find_pair(toks, <<"(">>, <<")">>, begin, end).it, build,
                         Temporary(toks, NewSetting(identifier, "TypeList"))))

\* _get_array; array is looked at only when the closing bracket was found
_get_array(toks, identifier, begin, end, build) ==
    LET Items(p, array) ==
            IF p.err # "none" THEN ParseError(p.err)
            ELSE IF array.err # "none" THEN ParseError(array.err)
            ELSE Parsed(ToValue(array.h, 1), IF p.it # end THEN p.it + 1 ELSE p.it)
    IN  Items(_find_pair(toks, <<"[">>, <<"]">>, begin, end),
              items_loop(toks, begin, _find_pair(toks, <<"[">>, <<"]">>, begin, end).it, build,
                         Temporary(toks, NewSetting(identifier, "TypeArray"))))

\* _get_list_item
_get_list_item(toks, begin, end, build) == _get_value(toks, <<>>, begin, end, build)

\* the result of _read_file: the root it returns, or the exception
Root(setting) == [ err |-> "none", root |-> setting ]
NoRoot(e) == [ err |-> e, root |-> NewSetting(<<>>, "TypeGroup") ]

\* _read_file, from "tokens = _concat_string(tokens)" on
_read_settings(tokens, build) ==
    LET Built(root) ==
            IF root.err # "none" THEN NoRoot(root.err) ELSE Root(ToValue(root.h, 1))
        Listed(settings) ==
            IF settings.err # "none" THEN NoRoot(settings.err)
            ELSE Built(add_each(Temporary(tokens, NewSetting(<<>>, "TypeGroup")), 1,
                                settings.settings))
    IN  Listed(_get_setting_list(tokens, 1, Len(tokens) + 1, build))

\* _read_file, from "token_array tokens = p.parse()" on: p is what parse()
\* returned or raised
_read_tokens(p, build) ==
    IF p.err # "none" THEN NoRoot(p.err)
    ELSE IF p.tokens = <<>> THEN Root(NewSetting(<<>>, "TypeGroup"))
    ELSE _read_settings(_concat_string(p.tokens), build)

\* _read_file
_read_file(fs, path, include_dir, build) ==
    IF _construct_path(path, include_dir).err # "none"
    THEN NoRoot(_construct_path(path, include_dir).err)
    ELSE _read_tokens(parser_parse(fs, _construct_path(path, include_dir).path,
                                   include_dir, 0), build)

----------------------------------------------------------------------------
(* Printing: operator<< and the print functions *)

\* string_type(n, ' ')
RECURSIVE Spaces(_)
Spaces(n) == IF n = 0 THEN <<>> ELSE <<" ">> \o Spaces(n - 1)

HexDigitText(d) == IF d < 10 THEN DecimalText(d) ELSE << AsciiChars[Ascii("a") - 31 + d - 10] >>

\* o << std::hex << v for a natural v
RECURSIVE HexText(_)
HexText(n) ==
    IF n < 16 THEN HexDigitText(n) ELSE HexText(n \div 16) \o HexDigitText(n % 16)

\* o << v for an int or a long v of the given width: in decimal with its
\* sign, in hexadecimal as the unsigned number of the same bits
IntegerText(n, bits, fmt) ==
    IF fmt = "FormatHex" THEN HexText(IF n < 0 THEN n + Pow2(bits) ELSE n)
    ELSE IF n < 0 THEN <<"-">> \o DecimalText(-n)
    ELSE DecimalText(n)

\* the digits of n, at least width of them
RECURSIVE Padded(_, _)
Padded(n, width) ==
    IF Len(DecimalText(n)) >= width THEN DecimalText(n)
    ELSE <<"0">> \o Padded(n, width - 1)

\* the digits of n with the point after the first pos of them (pos may be
\* zero or negative: the number then begins "0.", followed by zeros)
Pointed(n, pos) ==
    LET digits == DecimalText(n)
    IN  IF pos >= Len(digits) THEN digits
        ELSE IF pos <= 0 THEN <<"0", ".">> \o Padded(n, Len(digits) - pos)
        ELSE SubSeq(digits, 1, pos) \o <<".">> \o SubSeq(digits, pos + 1, Len(digits))

\* o << v for a double v = f.n * 10^f.e, the stream in its default state
\* (precision 6, neither fixed nor scientific): the floats of the model have
\* at most six significant digits, which this prints exactly
FloatText(f) ==
    LET m == IF f.n < 0 THEN -f.n ELSE f.n
        sign == IF f.n < 0 THEN <<"-">> ELSE <<>>
        X == Len(DecimalText(m)) - 1 + f.e
        exp == IF X < 0 THEN <<"e", "-">> \o Padded(-X, 2) ELSE <<"e", "+">> \o Padded(X, 2)
    IN  IF m = 0 THEN <<"0">>
        ELSE IF X < -4 \/ X >= 6 THEN sign \o Pointed(m, 1) \o exp
        ELSE sign \o Pointed(m, X + 1)

\* _basic_setting_scalar<T>::print
scalar_print(v) ==
    LET hex == v.type \in { "TypeInt", "TypeInt64" } /\ v.fmt = "FormatHex"
        prefix == IF hex THEN <<"0", "x">> ELSE <<>>
    IN  prefix \o
        CASE v.type = "TypeInt64" -> IntegerText(v.val.n, LongBits, v.fmt) \o <<"L">>
          [] v.type = "TypeString" -> <<"\"">> \o v.val.s \o <<"\"">>
          [] v.type = "TypeInt" -> IntegerText(v.val.n, IntBits, v.fmt)
          [] v.type = "TypeFloat" -> FloatText(v.val)
          [] OTHER -> IF v.val.b THEN <<"1">> ELSE <<"0">>

RECURSIVE print(_, _, _)
RECURSIVE list_print(_, _, _)
RECURSIVE array_print(_, _)
RECURSIVE container_print(_, _, _, _)

\* _basic_setting_list::print: the items from the i-th on
list_print(kids, i, level) ==
    IF i > Len(kids) THEN <<>>
    ELSE (IF i > 1 THEN Spaces((level + 1) * 4) \o <<",", "\n">> ELSE <<>>)
         \o Spaces((level + 1) * 4) \o print(kids[i], TRUE, level + 1) \o <<"\n">>
         \o list_print(kids, i + 1, level)

\* _basic_setting_array::print: the items from the i-th on
array_print(kids, i) ==
    IF i > Len(kids) THEN <<>>
    ELSE (IF i > 1 THEN <<",", " ">> ELSE <<>>) \o print(kids[i], TRUE, 0)
         \o array_print(kids, i + 1)

\* _basic_setting_container::print: the children from the i-th on, in the
\* order of the map
container_print(kids, i, level_c, complex) ==
    IF i > Len(kids) THEN <<>>
    ELSE Spaces(level_c * 4) \o print(kids[i], TRUE, level_c) \o <<";", "\n">>
         \o container_print(kids, i + 1, level_c, complex)

\* basic_setting::print, and the print of its value; has_parent tells
\* whether m_parent is set
print(v, has_parent, level) ==
    LET complex == has_parent \/ v.name # <<>>
        level_c == IF complex THEN level + 1 ELSE level
        name == IF v.name # <<>> THEN v.name \o <<" ", "=", " ">> ELSE <<>>
    IN  name \o
        CASE v.type = "TypeList" ->
                 IF v.kids = <<>> THEN <<"(", ")">>
                 ELSE <<"(", "\n">> \o list_print(v.kids, 1, level)
                      \o Spaces(level * 4) \o <<")">>
          [] v.type = "TypeArray" -> <<"[">> \o array_print(v.kids, 1) \o <<"]">>
          [] v.type = "TypeGroup" ->
                 IF v.kids = <<>> THEN <<"{", "}">>
                 ELSE (IF complex THEN <<"{", "\n">> ELSE <<>>)
                      \o container_print(v.kids, 1, level_c, complex)
                      \o (IF complex THEN Spaces(level * 4) \o <<"}">> ELSE <<>>)
          [] OTHER -> scalar_print(v)

\* operator<<(ostream, basic_setting) on the root of a Config
operator_shift(v) == print(v, FALSE, 0)

----------------------------------------------------------------------------
(* The calls a program makes on the Settings of its Configs *)

\* the inputs of the calls
Names == { <<"a">> }
Positions == { 0, 1 }
RemovePaths == { <<"a">>, <<"a", ".", "a">>, <<"a", ".", "[", "0", "]">> }

Arg(kind, b, n, s) == [ kind |-> kind, b |-> b, n |-> n, e |-> 0, s |-> s ]
AssignArgs == { Arg("int", FALSE, 7, <<>>) }
AddTypes == { "TypeInt", "TypeString", "TypeGroup", "TypeList", "TypeArray" }

\* Config(): a root Group with the empty name
\* the file of the current directory called name
File(name) == current_path \o <<"/">> \o name

\* the files a program finds on the disk: a group body that repeats a name,
\* an array literal with elements of two types, an array literal with an
\* aggregate element, a list that holds a group, one scalar setting, a
\* setting without a value
Disk ==
    (File(<<"p">>) :> << "g", ":", "{", "a", "=", "1", ";", "a", "=", "2", ";", "}", ";" >>)
    @@ (File(<<"q">>) :> << "a", "=", "[", "7", ",", "\"", "x", "\"", "]", ";" >>)
    @@ (File(<<"r">>) :> << "a", "=", "[", "(", "7", ")", "]", ";" >>)
    @@ (File(<<"s">>) :> << "a", "=", "(", "{", "a", "=", "7", ";", "}", ")", ";" >>)
    @@ (File(<<"t">>) :> << "a", "=", "7", ";" >>)
    @@ (File(<<"u">>) :> << "a", "=", ";" >>)

\* basic_config(): an empty root Group
NewConfig ==
    [ EmptyHeap(MaxNodes) EXCEPT ![1] = [ FreeCell EXCEPT !.type = "TypeGroup" ] ]

Init ==
    /\ heap = NewConfig
    /\ docs = <<1>>
    /\ err = "none"
    /\ got = NoRead
    /\ disk = Disk

\* a call that changes the heap as r says; one that runs out of cells is
\* not taken
Call(r) ==
    /\ r.err # "bad_alloc"
    /\ heap' = Renumber(r.h, docs)
    /\ docs' = [ i \in 1..Len(docs) |-> NewIndex(RootsOrder(r.h, docs), docs[i]) ]
    /\ err' = r.err
    /\ UNCHANGED <<got, disk>>

\* basic_setting::add(Type type)
add_type(t, type) ==
    Call(value_add(heap, t, NewSetting(<<>>, type)))

\* basic_setting::add(const string_type& name, Type type)
add_name_type(t, name, type) ==
    Call(value_add(heap, t, NewSetting(name, type)))

\* basic_setting::remove(size_t position)
remove_position(t, position) ==
    Call(remove_index(heap, t, position))

\* basic_setting::remove(const string_type& path)
remove(t, path) ==
    Call(remove_path(heap, t, path))

\* basic_setting::operator=(bool), (int), (long), (float), (const string_type&)
assign(t, arg) ==
    LET r == IF isScalar(heap[t].type) THEN assignValue(heap[t].type, arg) ELSE TypeEx
    IN  Call([ h |-> IF r.err = "none" THEN [ heap EXCEPT ![t].val = r.val ] ELSE heap,
               err |-> r.err, node |-> t ])

\* Config copy(cfg): the implicit copy constructor of basic_config, through
\* basic_setting(const basic_setting&)
copy_config ==
    /\ Len(docs) = 1
    /\ LET r == copy_setting(heap, ToValue(heap, docs[1]))
       IN  /\ r.err = "none"
           /\ heap' = Renumber(r.h, <<docs[1], r.node>>)
           /\ docs' = <<1, NewIndex(RootsOrder(r.h, <<docs[1], r.node>>), r.node)>>
           /\ err' = "none"
           /\ UNCHANGED <<got, disk>>

\* ~Config of the copy
destroy_config ==
    /\ Len(docs) = 2
    /\ heap' = Renumber(destroy(heap, docs[2]), <<docs[1]>>)
    /\ docs' = <<1>>
    /\ err' = "none"
    /\ UNCHANGED <<got, disk>>

\* an operator= that resets no value object: the children of other are
\* cloned after those t already holds
operator_assign_keeping(h, t, other) ==
    clone([ h EXCEPT ![t].name = other.name, ![t].type = other.type ], t, other.kids)

\* basic_setting::operator=(const basic_setting& other) on the Config t:
\* the children of t go with the value object that held them, and those of
\* other are cloned into a new one
operator_assign(h, t, other) ==
    LET gone == Subtree(h, t) \ { t }
        h1 == [ i \in DOMAIN h |->
                  IF i \in gone THEN FreeCell
                  ELSE IF i = t
                  THEN [ h[t] EXCEPT !.name = other.name, !.type = other.type,
                                     !.kids = <<>>, !.val = other.val, !.fmt = other.fmt ]
                  ELSE h[i] ]
    IN  clone(h1, t, other.kids)

\* the paths a program reads and writes
ReadPaths == { <<"p">>, <<"q">>, <<"r">>, <<"s">>, <<"t">>, <<"u">> }

\* value_type::operator=(_read_file(path, m_include_dir)) on the Config t,
\* r being what _read_file returned or raised
assign_file(h, t, r) ==
    IF r.err # "none" THEN Throw(h, r.err) ELSE operator_assign(h, t, r.root)

\* basic_config::readFile(path) on the Config docs[d], in a program built
\* as build says
readFile(d, path, build) ==
    Call(assign_file(heap, docs[d], _read_file(disk, path, current_path, build)))

Next ==
    \/ \E d \in 1..Len(docs), path \in ReadPaths, build \in Builds : readFile(d, path, build)
    \/ \E t \in Live(heap), type \in AddTypes : add_type(t, type)
    \/ \E t \in Live(heap), name \in Names, type \in AddTypes : add_name_type(t, name, type)
    \/ \E t \in Live(heap), position \in Positions : remove_position(t, position)
    \/ \E t \in Live(heap), path \in RemovePaths : remove(t, path)
    \/ \E t \in Live(heap), arg \in AssignArgs : assign(t, arg)
    \/ copy_config
    \/ destroy_config

Spec == Init /\ [][Next]_vars

----------------------------------------------------------------------------
(* Reading and writing files *)

\* the texts of the file a, which the program reads: the empty document,
\* scalars of every type, aggregates, a file that includes b, a file that
\* includes itself
MainTexts ==
    {
      <<>>,
      << "a", " ", "=", " ", "t", "r", "u", "e", ";" >>,
      << "a", " ", "=", " ", "0", "x", "1", "F", ";", "\n", "b", " ", "=", " ", "7", "L", ";" >>,
      << "s", " ", "=", " ", "\"", "x", "\"", ";" >>,
      << "a", " ", "=", " ", "(", "1", ",", " ", "{", "}", ")", ";" >>,
      << "a", " ", "=", " ", "[", "1", ",", " ", "2", "]", ";" >>,
      << "g", " ", ":", " ", "{", " ", "a", " ", "=", " ", "1", ";", " ", "}", ";" >>,
      << "f", " ", "=", " ", "2", ".", "5", ";" >>,
      << "@", "i", "n", "c", "l", "u", "d", "e", " ", "\"", "b", "\"", "\n", "v", " ", "=", " ", "2", ";" >>,
      << "@", "i", "n", "c", "l", "u", "d", "e", " ", "\"", "a", "\"", "\n" >> }

\* the texts of the file b, which a may include: a setting that ends with
\* ";", with the end of the file, with a newline; nothing; the directive
\* that includes a
IncludedTexts ==
    {
      << "u", " ", "=", " ", "1", ";" >>,
      << "u", " ", "=", " ", "1" >>,
      << "u", " ", "=", " ", "1", ";", "\n" >>,
      <<>>,
      << "@", "i", "n", "c", "l", "u", "d", "e", " ", "\"", "a", "\"", "\n" >> }

\* a disk with the file a, and with or without the file b
Disks ==
    { File(<<"a">>) :> main : main \in MainTexts }
    \cup { (File(<<"a">>) :> main) @@ (File(<<"b">>) :> included) :
             main \in MainTexts, included \in IncludedTexts }

InitFile ==
    /\ heap = NewConfig
    /\ docs = <<1>>
    /\ err = "none"
    /\ got = NoRead
    /\ disk \in Disks

FilePaths == { <<"a">>, <<"b">>, <<"o">> }
WritePaths == { <<"o">>, <<"x", "/", "o">> }

\* std::ofstream ofs(path) opens the file, which it creates or empties, when
\* the directory of path exists
CanCreate(fs, path) ==
    \/ Directory(path) = current_path
    \/ \E f \in DOMAIN fs : Directory(f) = Directory(path)

\* basic_config::writeFile(path) on the Config docs[d]
writeFile(d, path) ==
    LET Written(c) ==
            IF c.err # "none" THEN err' = c.err /\ UNCHANGED disk
            ELSE IF ~CanCreate(disk, c.path)
            THEN err' = "FileIOException" /\ UNCHANGED disk
            ELSE /\ err' = "none"
                 /\ disk' = [ f \in DOMAIN disk \cup { c.path } |->
                                IF f = c.path THEN operator_shift(ToValue(heap, docs[d]))
                                ELSE disk[f] ]
    IN  /\ Written(_construct_path(path, current_path))
        /\ UNCHANGED <<heap, docs, got>>

NextFile ==
    \/ \E d \in 1..Len(docs), path \in FilePaths, build \in Builds : readFile(d, path, build)
    \/ \E d \in 1..Len(docs), path \in WritePaths : writeFile(d, path)

SpecFile == InitFile /\ [][NextFile]_vars

----------------------------------------------------------------------------
(* Properties of the Setting tree *)

Groups == { g \in Live(heap) : heap[g].type = "TypeGroup" }
Arrays == { a \in Live(heap) : heap[a].type = "TypeArray" }

\* the root of the tree that holds s
RECURSIVE RootOf(_, _)
RootOf(h, s) == IF h[s].parent = NoNode THEN s ELSE RootOf(h, h[s].parent)

\* C1: no Group holds two children with the same name; add(name, type) on
\* a Group that already has a child called name raises SettingNameException
\* and inserts nothing, and so does the parsing of the file p, whose group
\* body repeats a name
C1_GroupNamesUnique ==
    /\ \A g \in Groups :
           /\ \A i, j \in 1..Len(heap[g].kids) :
                  i # j => heap[heap[g].kids[i]].name # heap[heap[g].kids[j]].name
           /\ \A i \in 1..Len(heap[g].kids), type \in AddTypes :
                  LET r == value_add(heap, g, NewSetting(heap[heap[g].kids[i]].name, type))
                  IN  r.err = "SettingNameException" /\ r.h = heap
    /\ \A build \in Builds :
           _read_file(disk, <<"p">>, current_path, build).err = "SettingNameException"

\* an add with a clashing name has just been refused on a Group that keeps
\* its child
C1_Witness ==
    /\ err = "SettingNameException"
    /\ \E g \in Groups : count(heap, g, <<"a">>) = 1

\* C2: every element of an Array is a scalar of the type of element 0;
\* adding an aggregate or an element of another scalar type raises
\* SettingTypeException, and so does the parsing of the array literals of
\* the files q (an Int and a String) and r (a List as element)
C2_ArrayHomogeneous ==
    /\ \A a \in Arrays :
           /\ \A i \in 1..Len(heap[a].kids) :
                  /\ isScalar(heap[heap[a].kids[i]].type)
                  /\ heap[heap[a].kids[i]].type = heap[heap[a].kids[1]].type
           /\ \A type \in AddTypes :
                  (~isScalar(type)
                   \/ (Len(heap[a].kids) > 0 /\ type # heap[heap[a].kids[1]].type))
                  => value_add(heap, a, NewSetting(<<>>, type)).err = "SettingTypeException"
    /\ \A build \in Builds, path \in { <<"q">>, <<"r">> } :
           _read_file(disk, path, current_path, build).err = "SettingTypeException"

\* an Array with two elements has just refused another one
C2_Witness ==
    /\ err = "SettingTypeException"
    /\ \E a \in Arrays : Len(heap[a].kids) = 2

\* C3: the parent of every Setting that is not a Config is the Setting whose
\* children hold it, exactly once; a Config has no parent and is the only
\* kind of Setting for which isRoot is true
C3_ParentBackReference ==
    \A s \in Live(heap) :
        /\ isRoot(heap, s) <=> s \in SeqToSet(docs)
        /\ s \notin SeqToSet(docs) =>
               /\ heap[s].parent \in Live(heap)
               /\ Cardinality({ i \in 1..Len(heap[heap[s].parent].kids) :
                                  heap[heap[s].parent].kids[i] = s }) = 1
        /\ \A i \in 1..Len(heap[s].kids) : heap[heap[s].kids[i]].parent = s

\* a copy of a Config holds a grandchild under a List
C3_Witness ==
    /\ Len(docs) = 2
    /\ \E s \in Live(heap) :
           /\ heap[s].parent # NoNode
           /\ heap[heap[s].parent].type = "TypeList"
           /\ RootOf(heap, s) = docs[2]

\* every Setting on the way from the root to s that is the child of a Group
\* has a name
RECURSIVE NamedInGroups(_, _)
NamedInGroups(h, s) ==
    \/ h[s].parent = NoNode
    \/ /\ h[h[s].parent].type = "TypeGroup" => h[s].name # <<>>
       /\ NamedInGroups(h, h[s].parent)

\* C4: looking up s.getPath() from the root of the tree of s returns s, for
\* every Setting s, the anonymous children of Lists and Arrays included
C4_GetPathLookup ==
    \A s \in Live(heap) :
        NamedInGroups(heap, s) =>
            LET r == _at(heap, RootOf(heap, s), getPath(heap, s))
            IN  r.err = "none" /\ r.node = s

\* C7: a call that raises leaves every Setting of every tree as it was
C7_FailureLeavesTree == [][ err' # "none" => heap' = heap /\ docs' = docs ]_vars

\* an add has just been refused by an Array that keeps its element
C7_Witness ==
    /\ err = "SettingTypeException"
    /\ \E a \in Arrays : Len(heap[a].kids) = 1 /\ heap[heap[a].kids[1]].val = NumVal(7)

\* the paths looked up: names and positions, one to three components
LookupPaths ==
    { <<"a">>, <<"[", "1", "]">>, <<"a", ".", "a">>, <<"a", ".", "[", "0", "]">>,
      <<"[", "0", "]", ".", "a">>, <<"a", ".", "a", ".", "a">>,
      <<"a", ".", "[", "0", "]", ".", "a">> }

\* C14: a lookup by path that fails, at whatever component, raises
\* SettingNotFoundException with the whole path of the lookup
C14_NotFoundCarriesWholePath ==
    \A t \in Live(heap), path \in LookupPaths :
        LET Carries(r) ==
                \/ r.err = "none" /\ r.node \in Subtree(heap, t) \ { t }
                \/ r.err = "SettingNotFoundException" /\ r.path = path
        IN  Carries(operator_index(heap, t, path))

\* a lookup of three components finds the first two and fails at the third
C14_Witness ==
    \E t \in Live(heap) :
        /\ operator_index(heap, t, <<"a", ".", "[", "0", "]">>).err = "none"
        /\ operator_index(heap, t, <<"a", ".", "[", "0", "]", ".", "a">>).err
               = "SettingNotFoundException"

\* C15: add(name, type) on a Setting that is no Group (a List, an Array, a
\* scalar) raises SettingTypeException and adds nothing
C15_NamedAddOnlyOnGroups ==
    \A t \in Live(heap), name \in Names, type \in AddTypes :
        heap[t].type # "TypeGroup" =>
            LET Refused(r) == r.err = "SettingTypeException" /\ r.h = heap
            IN  Refused(value_add(heap, t, NewSetting(name, type)))

\* C16: whatever adds and readFiles were made, every child of a Group has a
\* name and no child of a List or an Array has one
C16_NamesFollowParents ==
    \A s \in Live(heap) :
        heap[s].parent # NoNode =>
            IF heap[heap[s].parent].type = "TypeGroup" THEN heap[s].name # <<>>
            ELSE heap[s].name = <<>>

\* the trees of the Configs ds of the heap h
Trees(h, ds) == [ d \in 1..Len(ds) |-> ToValue(h, ds[d]) ]

\* the tree v without its k-th child
Without(v, k) == [ v EXCEPT !.kids = RemoveAt(@, k) ]

\* C18: remove(index) and remove(name) erase the child they address and no
\* other: the Setting is left with its other children, as they were and in
\* their order, and every other Setting is untouched; an index that is not
\* below the length, and a name no child has, raise
\* SettingNotFoundException and erase nothing
C18_RemoveExactlyTheChild ==
    \A t \in Live(heap) :
        /\ \A index \in 0..MaxNodes :
               LET Erased(r) ==
                       IF index < Len(heap[t].kids)
                       THEN /\ r.err = "none"
                            /\ ToValue(r.h, t) = Without(ToValue(heap, t), index + 1)
                            /\ Live(r.h) = Live(heap) \ Subtree(heap, heap[t].kids[index + 1])
                            /\ \A s \in Live(r.h) \ { t } : r.h[s] = heap[s]
                       ELSE r.err = "SettingNotFoundException" /\ r.h = heap
               IN  Erased(remove_index(heap, t, index))
        /\ \A name \in Names \cup { <<>> } :
               LET Erased(r) ==
                       IF heap[t].type = "TypeGroup" /\ count(heap, t, name) > 0
                       THEN /\ r.err = "none"
                            /\ Len(r.h[t].kids) = Len(heap[t].kids) - 1
                            /\ \E k \in 1..Len(heap[t].kids) :
                                   /\ heap[heap[t].kids[k]].name = name
                                   /\ ToValue(r.h, t) = Without(ToValue(heap, t), k)
                                   /\ Live(r.h) = Live(heap) \ Subtree(heap, heap[t].kids[k])
                            /\ \A s \in Live(r.h) \ { t } : r.h[s] = heap[s]
                       ELSE r.err = "SettingNotFoundException" /\ r.h = heap
               IN  Erased(remove_name(heap, t, name))

\* a List holds two items of different types, the first of which a remove
\* erases
C18_Witness ==
    \E t \in Live(heap) :
        /\ heap[t].type = "TypeList"
        /\ Len(heap[t].kids) = 2
        /\ heap[heap[t].kids[1]].type # heap[heap[t].kids[2]].type
        /\ remove_index(heap, t, 0).err = "none"

\* C19: the copy of a Config has no parent, equals the original child for
\* child and shares no Setting with it; a later add, remove, assignment or
\* readFile on one of the two leaves the tree of the other as it was
C19_CopyIsIndependent ==
    [][ /\ (Len(docs) = 1 /\ Len(docs') = 2) =>
               /\ Trees(heap', docs')[2] = Trees(heap, docs)[1]
               /\ Trees(heap', docs')[1] = Trees(heap, docs)[1]
               /\ heap'[docs'[2]].parent = NoNode
               /\ Subtree(heap', docs'[1]) \cap Subtree(heap', docs'[2]) = {}
        /\ (Len(docs) = 2 /\ Len(docs') = 2) =>
               /\ Trees(heap', docs')[1] = Trees(heap, docs)[1] \/ Trees(heap', docs')[2] = Trees(heap, docs)[2]
               /\ Subtree(heap', docs'[1]) \cap Subtree(heap', docs'[2]) = {} ]_vars

\* of a Config and its copy, the first holds a child and the second none
C19_Witness ==
    /\ Len(docs) = 2
    /\ Trees(heap, docs)[1].kids # <<>>
    /\ Trees(heap, docs)[2].kids = <<>>

\* C27: on every Setting and for every path of names and positions, exists
\* returns true exactly when operator[] with the path returns a Setting
C27_ExistsIffLookup ==
    \A t \in Live(heap), path \in LookupPaths :
        /\ exists(heap, t, path).err = "none"
        /\ exists(heap, t, path).val <=> operator_index(heap, t, path).err = "none"

\* C30: getIndex of a Setting with a parent is the position the parent holds
\* it at, so that the child of the parent at that position is the Setting
\* itself; getIndex of a root is -1
C30_IndexIsOwnPosition ==
    \A s \in Live(heap) :
        IF isRoot(heap, s) THEN getIndex(heap, s) = -1
        ELSE /\ getIndex(heap, s) >= 0
             /\ at_index(heap, heap[s].parent, getIndex(heap, s)) = Found(s)

\* the paths that are no paths: the empty one, and those that begin or end
\* with a dot
MalformedPaths == { <<>>, <<".">>, <<".", "a">>, <<"a", ".">> }

\* C13: operator[] with a string, exists and remove raise invalid_argument
\* for the empty path and for a path that begins or ends with a dot, on
\* every Setting, and resolve none of them
C13_MalformedPathsRejected ==
    \A t \in Live(heap), path \in MalformedPaths :
        /\ operator_index(heap, t, path).err = "invalid_argument"
        /\ exists(heap, t, path).err = "invalid_argument"
        /\ remove_path(heap, t, path).err = "invalid_argument"

\* C11: readFile either makes the tree of the Config the tree parsed from
\* the file, with no child of the tree it had before, or raises the error of
\* the tokenizer or the parser (a syntax error, a repeated name, an array
\* literal of mixed types) and leaves every tree as it was; stated of the
\* call on every Config, in every state, for every file
C11_ReadFileAllOrNothing ==
    \A d \in 1..Len(docs), path \in ReadPaths, build \in Builds :
        LET Outcome(r, o) ==
                \/ o.err = "bad_alloc"
                \/ /\ r.err = "none"
                   /\ o.err = "none"
                   /\ ToValue(o.h, docs[d]) = r.root
                   /\ \A e \in 1..Len(docs) :
                          e # d => ToValue(o.h, docs[e]) = ToValue(heap, docs[e])
                   /\ Live(o.h) = UNION { Subtree(o.h, docs[e]) : e \in 1..Len(docs) }
                \/ /\ r.err \in { "ParseException", "SettingNameException",
                                  "SettingTypeException" }
                   /\ o.err = r.err
                   /\ o.h = heap
            Settled(r) == Outcome(r, assign_file(heap, docs[d], r))
        IN  Settled(_read_file(disk, path, current_path, build))

\* a Config that held a List now holds the one Int of the file t
C11_Witness ==
    /\ err = "none"
    /\ Len(docs) = 2
    /\ ToValue(heap, docs[1]) = _read_file(disk, <<"t">>, current_path, [ std |-> "c++11", junk |-> 0 ]).root
    /\ ToValue(heap, docs[2]).kids # <<>>
    /\ ToValue(heap, docs[2]).kids[1].type = "TypeList"

----------------------------------------------------------------------------
(* Properties of reading and writing files *)

\* the tree of the Config
Tree == ToValue(heap, docs[1])

\* the types the tree v is made of
RECURSIVE TypesOf(_)
TypesOf(v) == { v.type } \cup UNION { TypesOf(v.kids[i]) : i \in 1..Len(v.kids) }

\* C8: when the file o holds the text the printer emits for the tree of the
\* Config (a tree the parser produced, without any Float), reading o
\* succeeds and yields a tree equal to it
C8_RoundTrip ==
    \A build \in Builds :
        (/\ File(<<"o">>) \in DOMAIN disk
         /\ disk[File(<<"o">>)] = operator_shift(Tree)
         /\ "TypeFloat" \notin TypesOf(Tree))
        => /\ _read_file(disk, <<"o">>, current_path, build).err = "none"
           /\ _read_file(disk, <<"o">>, current_path, build).root = Tree

Directive == << "@", "i", "n", "c", "l", "u", "d", "e" >>

\* the position of the first @include of text, 0 when it has none
DirectiveAt(text) ==
    IF \E i \in 1..(Len(text) - 7) : SubSeq(text, i, i + 7) = Directive
    THEN CHOOSE i \in 1..(Len(text) - 7) :
             /\ SubSeq(text, i, i + 7) = Directive
             /\ \A j \in 1..(i - 1) : SubSeq(text, j, j + 7) # Directive
    ELSE 0

\* the position of the first quote of text after position i
QuoteAfter(text, i) ==
    CHOOSE q \in (i + 1)..Len(text) :
        text[q] = "\"" /\ \A j \in (i + 1)..(q - 1) : text[j] # "\""

\* the file that the first @include "name" of text names
Included(text) ==
    File(SubSeq(text, QuoteAfter(text, DirectiveAt(text)) + 1,
                QuoteAfter(text, QuoteAfter(text, DirectiveAt(text))) - 1))

\* text with the text of the file it includes in place of the directive
Splice(fs, text) ==
    SubSeq(text, 1, DirectiveAt(text) - 1)
    \o (IF Included(text) \in DOMAIN fs THEN fs[Included(text)] ELSE <<>>)
    \o SubSeq(text, QuoteAfter(text, QuoteAfter(text, DirectiveAt(text))) + 1, Len(text))

\* the disk fs with the included file spliced into the file a
Spliced(fs) == [ fs EXCEPT ![File(<<"a">>)] = Splice(fs, @) ]

\* the strings of the tokens parse() returns for the file a, or the
\* exception it raises
TokensOf(fs) ==
    [ err |-> parser_parse(fs, File(<<"a">>), current_path, 0).err,
      texts |-> Texts(parser_parse(fs, File(<<"a">>), current_path, 0).tokens) ]

\* C9: reading a file a that holds an @include directive gives the tokens,
\* and leaves the Config with the tree or raises the exception, that reading
\* a with the text of the included file in place of the directive gives
C9_IncludeFlattening ==
    [][ \A build \in Builds :
            (/\ DirectiveAt(disk[File(<<"a">>)]) # 0
             /\ readFile(1, <<"a">>, build))
            => /\ TokensOf(disk) = TokensOf(Spliced(disk))
               /\ err' = _read_file(Spliced(disk), <<"a">>, current_path, build).err
               /\ err' = "none" =>
                      ToValue(heap', docs'[1])
                          = _read_file(Spliced(disk), <<"a">>, current_path, build).root
      ]_vars

\* the file a includes itself, or includes the file b that includes a
SelfIncluding(fs) ==
    /\ DirectiveAt(fs[File(<<"a">>)]) # 0
    /\ \/ Included(fs[File(<<"a">>)]) = File(<<"a">>)
       \/ /\ Included(fs[File(<<"a">>)]) \in DOMAIN fs
          /\ DirectiveAt(fs[Included(fs[File(<<"a">>)])]) # 0
          /\ Included(fs[Included(fs[File(<<"a">>)])]) = File(<<"a">>)

\* C10: reading a file that includes itself, directly or through another
\* file, ends with a FileIOException
C10_DepthReported ==
    [][ \A build \in Builds :
            (SelfIncluding(disk) /\ readFile(1, <<"a">>, build))
            => err' = "FileIOException" ]_vars


\* C12: readFile on a path that cannot be opened for reading (no file of
\* that name exists) raises FileIOException and leaves the tree as it was
C12_UnopenableRaises ==
    [][ \A path \in FilePaths, build \in Builds :
            (File(path) \notin DOMAIN disk /\ readFile(1, path, build))
            => err' = "FileIOException" /\ heap' = heap ]_vars

----------------------------------------------------------------------------
(* Reading a scalar Setting through the conversion operators *)

\* the values a scalar Setting is given: the limits of int, unsigned and
\* long and their neighbours
IntValues == { INT_MIN, -1, 0, 1, INT_MAX }
LongValues ==
    { LONG_MIN, INT_MIN - 1, INT_MIN, -1, 0, 1, INT_MAX, INT_MAX + 1,
      UINT_MAX, UINT_MAX + 1, LONG_MAX }
FloatValues == { -1, 0, 2 }
StringValues == { <<>>, <<"x">> }

ScalarInputs ==
    { [ type |-> "TypeBoolean", val |-> BoolVal(b) ] : b \in BOOLEAN }
    \cup { [ type |-> "TypeInt", val |-> NumVal(n) ] : n \in IntValues }
    \cup { [ type |-> "TypeInt64", val |-> NumVal(n) ] : n \in LongValues }
    \cup { [ type |-> "TypeFloat", val |-> NumVal(n) ] : n \in FloatValues }
    \cup { [ type |-> "TypeString", val |-> StrVal(x) ] : x \in StringValues }

\* a Config whose only Setting is a scalar with a value stored in it
InitConv ==
    /\ \E in \in ScalarInputs :
           heap = [ EmptyHeap(MaxNodes) EXCEPT
                      ![1] = [ FreeCell EXCEPT !.type = "TypeGroup", !.kids = <<2>> ],
                      ![2] = [ FreeCell EXCEPT !.name = <<"a">>, !.type = in.type,
                                               !.val = in.val, !.parent = 1 ] ]
    /\ docs = <<1>>
    /\ err = "none"
    /\ got = NoRead
    /\ disk = <<>>

Scalars == { t \in Live(heap) : isScalar(heap[t].type) }

\* a conversion operator returns r.val or raises r.err
Read(target, r) ==
    /\ err' = r.err
    /\ got' = [ target |-> target, val |-> r.val ]
    /\ UNCHANGED <<heap, docs, disk>>

\* basic_setting::operator bool, int, unsigned, long, unsigned long, float,
\* double, string_type
operator_bool(t) == Read("bool", lookupValue_bool(heap[t].type, heap[t].val))
operator_int(t) == Read("int", lookupValue_int(heap[t].type, heap[t].val))
operator_unsigned(t) == Read("unsigned", lookupValue_unsigned(heap[t].type, heap[t].val))
operator_long(t) == Read("long", lookupValue_long(heap[t].type, heap[t].val))
operator_unsigned_long(t) ==
    Read("unsigned long", lookupValue_unsigned_long(heap[t].type, heap[t].val))
operator_float(t) == Read("float", lookupValue_float(heap[t].type, heap[t].val))
operator_double(t) == Read("double", lookupValue_double(heap[t].type, heap[t].val))
operator_string_type(t) == Read("string", lookupValue_string(heap[t].type, heap[t].val))

NextConv ==
    \/ \E t \in Scalars : operator_bool(t)
    \/ \E t \in Scalars : operator_int(t)
    \/ \E t \in Scalars : operator_unsigned(t)
    \/ \E t \in Scalars : operator_long(t)
    \/ \E t \in Scalars : operator_unsigned_long(t)
    \/ \E t \in Scalars : operator_float(t)
    \/ \E t \in Scalars : operator_double(t)
    \/ \E t \in Scalars : operator_string_type(t)

SpecConv == InitConv /\ [][NextConv]_vars

\* the Setting the last conversion operator was called on
Stored == heap[2]

C6_RangeChecked ==
    LET v == Stored.val.n
        inRange == CASE got.target = "int" -> INT_MIN <= v /\ v <= INT_MAX
                     [] got.target = "unsigned" -> 0 <= v /\ v <= UINT_MAX
                     [] got.target = "unsigned long" -> 0 <= v
    IN  (/\ Stored.type \in { "TypeInt", "TypeInt64" }
         /\ got.target \in { "int", "unsigned", "unsigned long" })
        => IF inRange THEN err = "none" /\ got.val = NumVal(v)
           ELSE err = "SettingTypeException" /\ got.val = NoVal

\* an Int64 above the maximum of unsigned has been refused as unsigned
C6_Witness ==
    /\ Stored.type = "TypeInt64" /\ Stored.val.n > UINT_MAX
    /\ got.target = "unsigned"
    /\ err = "SettingTypeException"

----------------------------------------------------------------------------
(* Assigning scalars to a Setting of each type *)

\* the arguments of operator=: bools, ints, longs, floats and strings
AssignMenu ==
    { Arg("bool", b, 0, <<>>) : b \in BOOLEAN }
    \cup { Arg("int", FALSE, n, <<>>) : n \in IntValues }
    \cup { Arg("long", FALSE, n, <<>>) : n \in LongValues }
    \cup { [ Arg("float", FALSE, n, <<>>) EXCEPT !.e = -1 ] : n \in { -10, 0, 20, 25 } }
    \cup { Arg("string", FALSE, 0, x) : x \in StringValues }

\* Config cfg; cfg.add("a", type): the Setting the constructor builds for
\* each type, and for a List the first item add(item) gives it
InitAssign ==
    /\ \E type \in Types, item \in Types :
           LET Added(h) ==
                   IF type = "TypeList" THEN value_add(h, 2, NewSetting(<<>>, item)).h
                   ELSE h
           IN  heap = Added(value_add(NewConfig, 1, NewSetting(<<"a">>, type)).h)
    /\ docs = <<1>>
    /\ err = "none"
    /\ got = NoRead
    /\ disk = <<>>

NextAssign == \E t \in Live(heap), arg \in AssignMenu : assign(t, arg)

SpecAssign == InitAssign /\ [][NextAssign]_vars

\* the value of a cell is of the C++ type its tag names: a scalar has no
\* child and holds a bool, an int, a long, a float or a string; a Group, a
\* List and an Array hold children and no scalar
Shaped(c) ==
    CASE c.type = "TypeBoolean" -> c.kids = <<>> /\ c.val = BoolVal(c.val.b)
      [] c.type = "TypeInt" ->
             c.kids = <<>> /\ c.val = NumVal(c.val.n) /\ c.val.n \in INT_MIN..INT_MAX
      [] c.type = "TypeInt64" ->
             c.kids = <<>> /\ c.val = NumVal(c.val.n) /\ c.val.n \in LONG_MIN..LONG_MAX
      [] c.type = "TypeFloat" -> c.kids = <<>> /\ c.val = FloatVal(c.val.n, c.val.e)
      [] c.type = "TypeString" -> c.kids = <<>> /\ c.val = StrVal(c.val.s)
      [] OTHER -> c.val = NoVal

\* C17: the value of every Setting has the shape its type tag names; an
\* assignment of a scalar leaves every tag as it was, and either stores the
\* converted value in a scalar Setting or raises SettingTypeException and
\* stores nothing; on a Group, a List or an Array it raises
C17_TagAgreesWithValue ==
    [][ \A t \in Live(heap), arg \in AssignMenu :
            assign(t, arg) =>
                /\ \A s \in Live(heap) : Shaped(heap[s])
                /\ \A s \in NodeIds : heap'[s].type = heap[s].type /\ Shaped(heap'[s])
                /\ err' \in { "none", "SettingTypeException" }
                /\ err' = "SettingTypeException" => heap' = heap
                /\ err' = "none" =>
                       /\ isScalar(heap[t].type)
                       /\ heap' = [ heap EXCEPT ![t].val = heap'[t].val ]
                /\ ~isScalar(heap[t].type) => err' = "SettingTypeException" ]_vars

\* an Int holds the 2 that the assignment of the float 2.5 left in it
C17_Witness ==
    /\ err = "none"
    /\ heap[2].type = "TypeInt"
    /\ heap[2].val = NumVal(2)

\* C29: a bool assigned to a Boolean, an Int or an Int64 is the bool the
\* Setting is then read as, true or false; an int or a long assigned to an
\* Int or an Int64 that holds it is the long the Setting is then read as
C29_AssignedReadsBack ==
    [][ \A t \in Live(heap), arg \in AssignMenu :
            assign(t, arg) =>
                /\ (arg.kind = "bool" /\ heap[t].type \in { "TypeBoolean", "TypeInt", "TypeInt64" })
                   => /\ err' = "none"
                      /\ lookupValue_bool(heap'[t].type, heap'[t].val) = Value(BoolVal(arg.b))
                /\ (\/ arg.kind \in { "int", "long" } /\ heap[t].type = "TypeInt64"
                    \/ /\ arg.kind \in { "int", "long" } /\ heap[t].type = "TypeInt"
                       /\ arg.n \in INT_MIN..INT_MAX)
                   => /\ err' = "none"
                      /\ lookupValue_long(heap'[t].type, heap'[t].val) = Value(NumVal(arg.n))
      ]_vars

----------------------------------------------------------------------------
(* Reading the literals of a file back *)

\* a setting "name = literal;" and the value its literal denotes: the int n,
\* the number n * 10^e, the string s
Literal(name, text, kind, n, e, str) ==
    [ name |-> name, text |-> text, kind |-> kind, n |-> n, e |-> e, s |-> str ]

IntLiterals ==
    { Literal(<<"i">>, <<"0">>, "int", 0, 0, <<>>),
      Literal(<<"i">>, <<"1">>, "int", 1, 0, <<>>),
      Literal(<<"i">>, <<"-", "7">>, "int", -7, 0, <<>>),
      Literal(<<"i">>, <<"1", "0", "0">>, "int", 100, 0, <<>>) }
FloatLiterals ==
    { Literal(<<"d">>, <<"2", ".", "5">>, "float", 25, -1, <<>>),
      Literal(<<"d">>, <<"2", ".", "3", "4">>, "float", 234, -2, <<>>),
      Literal(<<"d">>, <<"-", "0", ".", "5">>, "float", -5, -1, <<>>),
      Literal(<<"d">>, <<"1", "e", "2">>, "float", 100, 0, <<>>) }
StringLiterals ==
    { Literal(<<"s">>, <<"\"", "x", "\"">>, "string", 0, 0, <<"x">>),
      Literal(<<"s">>, <<"\"", "a", " ", "b", "\"">>, "string", 0, 0, <<"a", " ", "b">>),
      Literal(<<"s">>, <<"\"", "\"">>, "string", 0, 0, <<>>) }

\* the files: one setting, or an int, a float and a string as in
\* simple_config.cfg
LiteralFiles ==
    { <<l>> : l \in IntLiterals \cup FloatLiterals \cup StringLiterals }
    \cup { <<i, d, str>> : i \in { Literal(<<"i">>, <<"1">>, "int", 1, 0, <<>>) },
                          d \in FloatLiterals, str \in StringLiterals }

\* the text of a file: a line "name = literal;" for each setting
RECURSIVE TextOf(_)
TextOf(f) ==
    IF f = <<>> THEN <<>>
    ELSE Head(f).name \o <<" ", "=", " ">> \o Head(f).text \o <<";", "\n">>
         \o TextOf(Tail(f))

InitLiteral ==
    /\ heap = NewConfig
    /\ docs = <<1>>
    /\ err = "none"
    /\ got = NoRead
    /\ \E f \in LiteralFiles : disk = (File(<<"a">>) :> TextOf(f))

\* int v = cfg[name], double v = cfg[name], std::string v = cfg[name]:
\* operator[] and the conversion operator of the Setting it returns
read_back(name, kind) ==
    LET Converted(r) ==
            IF r.err # "none" THEN Read(kind, [ err |-> r.err, val |-> NoVal ])
            ELSE CASE kind = "int" -> operator_int(r.node)
                   [] kind = "double" -> operator_double(r.node)
                   [] OTHER -> operator_string_type(r.node)
    IN  Converted(operator_index(heap, docs[1], name))

NextLiteral ==
    \/ \E build \in Builds : readFile(1, <<"a">>, build)
    \/ \E name \in { <<"i">>, <<"d">>, <<"s">> }, kind \in { "int", "double", "string" } :
           read_back(name, kind)

SpecLiteral == InitLiteral /\ [][NextLiteral]_vars

\* the settings of the file of the disk
SettingsOf(fs) == CHOOSE f \in LiteralFiles : TextOf(f) = fs[File(<<"a">>)]

\* what reading the Setting c back gives is what the literal l denotes
ReadsBack(c, l) ==
    CASE l.kind = "int" -> lookupValue_int(c.type, c.val) = Value(NumVal(l.n))
      [] l.kind = "float" -> lookupValue_double(c.type, c.val) = Value(FloatVal(l.n, l.e))
      [] OTHER -> lookupValue_string(c.type, c.val) = Value(StrVal(l.s))

\* C20: readFile of a file of settings "name = literal;" gives a root Group
\* with one child for each setting, and the child found under the name of a
\* setting reads back as the value of its literal: a decimal integer as
\* that int, a floating literal as that number (read as a double; the
\* floats of the model are exact), a quoted string as the text between its
\* quotes
C20_LiteralsReadBack ==
    [][ \A build \in Builds :
            readFile(1, <<"a">>, build) =>
                /\ err' = "none"
                /\ heap'[docs'[1]].type = "TypeGroup"
                /\ Len(heap'[docs'[1]].kids) = Len(SettingsOf(disk))
                /\ \A k \in 1..Len(SettingsOf(disk)) :
                       LET Reads(r) ==
                               r.err = "none" /\ ReadsBack(heap'[r.node], SettingsOf(disk)[k])
                       IN  Reads(operator_index(heap', docs'[1], SettingsOf(disk)[k].name)) ]_vars

----------------------------------------------------------------------------
(* Reading one scalar literal *)

\* the text of a literal, and the type, the format and the value the
\* grammar of the language gives it (type "none": no literal)
Scalar(text, type, fmt, val) == [ text |-> text, type |-> type, fmt |-> fmt, val |-> val ]

\* string literals, with escapes and adjacent literals, and the text each
\* denotes
StringTokens ==
    { Scalar(<<"\"", "x", "\"">>, "TypeString", "FormatDefault", StrVal(<<"x">>)),
      Scalar(<<"\"", "1", "\"">>, "TypeString", "FormatDefault", StrVal(<<"1">>)),
      Scalar(<<"\"", "t", "r", "u", "e", "\"">>, "TypeString", "FormatDefault", StrVal(<<"t", "r", "u", "e">>)),
      Scalar(<<"\"", "a", " ", "b", "\"">>, "TypeString", "FormatDefault", StrVal(<<"a", " ", "b">>)),
      Scalar(<<"\"", "\"">>, "TypeString", "FormatDefault", StrVal(<<>>)),
      Scalar(<<"\"", "a", "\\", "\"", "b", "\"">>, "TypeString", "FormatDefault", StrVal(<<"a", "\"", "b">>)),
      Scalar(<<"\"", "\\", "\\", "\"">>, "TypeString", "FormatDefault", StrVal(<<"\\">>)),
      Scalar(<<"\"", "a", "\\", "n", "b", "\"">>, "TypeString", "FormatDefault", StrVal(<<"a", "\n", "b">>)),
      Scalar(<<"\"", "\\", "t", "\"">>, "TypeString", "FormatDefault", StrVal(<<"\t">>)),
      Scalar(<<"\"", "a", "\"", " ", "\"", "b", "\"">>, "TypeString", "FormatDefault", StrVal(<<"a", "b">>)),
      Scalar(<<"\"", "a", "\"", "\n", "\"", "b", "\"">>, "TypeString", "FormatDefault", StrVal(<<"a", "b">>)),
      Scalar(<<"\"", "\"", " ", "\"", "a", "\"">>, "TypeString", "FormatDefault", StrVal(<<"a">>)),
      Scalar(<<"\"", "a", "\"", " ", "\"", "\"">>, "TypeString", "FormatDefault", StrVal(<<"a">>)),
      Scalar(<<"\"", "\"", " ", "\"", "\"">>, "TypeString", "FormatDefault", StrVal(<<>>)),
      Scalar(<<"\"", "a", ";", "b", "\"">>, "TypeString", "FormatDefault", StrVal(<<"a", ";", "b">>)),
      Scalar(<<"\"", "#", "a", "\"">>, "TypeString", "FormatDefault", StrVal(<<"#", "a">>)),
      Scalar(<<"\"", "/", "*", "a", "*", "/", "\"">>, "TypeString", "FormatDefault", StrVal(<<"/", "*", "a", "*", "/">>)) }

\* true and false in several letter cases
BooleanTokens ==
    { Scalar(<<"t", "r", "u", "e">>, "TypeBoolean", "FormatDefault", BoolVal(TRUE)),
      Scalar(<<"T", "R", "U", "E">>, "TypeBoolean", "FormatDefault", BoolVal(TRUE)),
      Scalar(<<"T", "r", "u", "e">>, "TypeBoolean", "FormatDefault", BoolVal(TRUE)),
      Scalar(<<"t", "R", "u", "E">>, "TypeBoolean", "FormatDefault", BoolVal(TRUE)),
      Scalar(<<"f", "a", "l", "s", "e">>, "TypeBoolean", "FormatDefault", BoolVal(FALSE)),
      Scalar(<<"F", "A", "L", "S", "E">>, "TypeBoolean", "FormatDefault", BoolVal(FALSE)),
      Scalar(<<"F", "a", "l", "s", "e">>, "TypeBoolean", "FormatDefault", BoolVal(FALSE)),
      Scalar(<<"f", "A", "l", "S", "e">>, "TypeBoolean", "FormatDefault", BoolVal(FALSE)) }

\* decimal and hexadecimal literals of values that an int holds
IntTokens ==
    { Scalar(<<"0">>, "TypeInt", "FormatDefault", NumVal(0)),
      Scalar(<<"7">>, "TypeInt", "FormatDefault", NumVal(7)),
      Scalar(<<"-", "7">>, "TypeInt", "FormatDefault", NumVal(-7)),
      Scalar(<<"+", "7">>, "TypeInt", "FormatDefault", NumVal(7)),
      Scalar(<<"0", "0", "7">>, "TypeInt", "FormatDefault", NumVal(7)),
      Scalar(<<"1", "0", "0">>, "TypeInt", "FormatDefault", NumVal(100)),
      Scalar(<<"0", "x", "1", "f">>, "TypeInt", "FormatHex", NumVal(31)),
      Scalar(<<"0", "X", "1", "F">>, "TypeInt", "FormatHex", NumVal(31)),
      Scalar(<<"0", "x", "0">>, "TypeInt", "FormatHex", NumVal(0)),
      Scalar(<<"0", "x", "7", "a">>, "TypeInt", "FormatHex", NumVal(122)) }

\* the same with the suffix L or LL
Int64Tokens ==
    { Scalar(<<"7", "L">>, "TypeInt64", "FormatDefault", NumVal(7)),
      Scalar(<<"-", "7", "L", "L">>, "TypeInt64", "FormatDefault", NumVal(-7)),
      Scalar(<<"+", "1", "0", "0", "L">>, "TypeInt64", "FormatDefault", NumVal(100)),
      Scalar(<<"1", "0", "0", "0", "L">>, "TypeInt64", "FormatDefault", NumVal(1000)),
      Scalar(<<"0", "x", "1", "f", "L">>, "TypeInt64", "FormatHex", NumVal(31)),
      Scalar(<<"0", "X", "1", "F", "L", "L">>, "TypeInt64", "FormatHex", NumVal(31)),
      Scalar(<<"0", "x", "1", "0", "0", "L">>, "TypeInt64", "FormatHex", NumVal(256)) }

\* literals of the floating grammar
FloatTokens ==
    { Scalar(<<"2", ".", "5">>, "TypeFloat", "FormatDefault", FloatVal(25, -1)),
      Scalar(<<"-", ".", "5">>, "TypeFloat", "FormatDefault", FloatVal(-5, -1)),
      Scalar(<<"1", ".">>, "TypeFloat", "FormatDefault", FloatVal(1, 0)),
      Scalar(<<"+", "1", ".", "5">>, "TypeFloat", "FormatDefault", FloatVal(15, -1)),
      Scalar(<<"1", "e", "2">>, "TypeFloat", "FormatDefault", FloatVal(100, 0)),
      Scalar(<<"1", ".", "5", "e", "1">>, "TypeFloat", "FormatDefault", FloatVal(15, 0)),
      Scalar(<<"2", "5", "E", "-", "1">>, "TypeFloat", "FormatDefault", FloatVal(25, -1)),
      Scalar(<<".", "5", "e", "+", "1">>, "TypeFloat", "FormatDefault", FloatVal(5, 0)),
      Scalar(<<"0", ".", "0">>, "TypeFloat", "FormatDefault", FloatVal(0, 0)) }

\* tokens that are no literal
OtherTokens ==
    { Scalar(<<"a", "b", "c">>, "none", "FormatDefault", NoVal),
      Scalar(<<"0", "x">>, "none", "FormatDefault", NoVal),
      Scalar(<<"0", "x", "g">>, "none", "FormatDefault", NoVal),
      Scalar(<<"1", "L", "2">>, "none", "FormatDefault", NoVal),
      Scalar(<<"1", "L", "L", "L">>, "none", "FormatDefault", NoVal),
      Scalar(<<"7", "l">>, "none", "FormatDefault", NoVal),
      Scalar(<<"-", "-", "1">>, "none", "FormatDefault", NoVal),
      Scalar(<<"1", "e">>, "none", "FormatDefault", NoVal),
      Scalar(<<"e", "1">>, "none", "FormatDefault", NoVal),
      Scalar(<<"t", "r", "u">>, "none", "FormatDefault", NoVal),
      Scalar(<<"1", ".", "2", ".", "3">>, "none", "FormatDefault", NoVal),
      Scalar(<<"1", "x">>, "none", "FormatDefault", NoVal),
      Scalar(<<"L">>, "none", "FormatDefault", NoVal),
      Scalar(<<"+">>, "none", "FormatDefault", NoVal),
      Scalar(<<"0", "x", "1", "f", "l">>, "none", "FormatDefault", NoVal),
      Scalar(<<"1", "e", "2", "L">>, "none", "FormatDefault", NoVal) }

\* integer literals without suffix of values that no int holds: the
\* neighbours of the limits of int, and the largest unsigned and long
OverflowTokens ==
    { Scalar(DecimalText(INT_MAX + 1), "TypeInt", "FormatDefault", NumVal(INT_MAX + 1)),
      Scalar(<<"-">> \o DecimalText(1 - INT_MIN), "TypeInt", "FormatDefault",
             NumVal(INT_MIN - 1)),
      Scalar(DecimalText(LONG_MAX), "TypeInt", "FormatDefault", NumVal(LONG_MAX)),
      Scalar(<<"0", "x">> \o HexText(INT_MAX + 1), "TypeInt", "FormatHex",
             NumVal(INT_MAX + 1)),
      Scalar(<<"0", "x">> \o HexText(UINT_MAX), "TypeInt", "FormatHex", NumVal(UINT_MAX)) }

ScalarTokens ==
    StringTokens \cup BooleanTokens \cup IntTokens \cup Int64Tokens \cup FloatTokens
    \cup OtherTokens \cup OverflowTokens

\* the file of the one setting a = literal;
ScalarFile(t) == <<"a", " ", "=", " ">> \o t.text \o <<";", "\n">>

InitScalar ==
    /\ heap = NewConfig
    /\ docs = <<1>>
    /\ err = "none"
    /\ got = NoRead
    /\ \E t \in ScalarTokens : disk = (File(<<"a">>) :> ScalarFile(t))

NextScalar ==
    \/ \E build \in Builds : readFile(1, <<"a">>, build)
    \/ \E t \in Scalars : operator_bool(t)
    \/ \E t \in Scalars : operator_long(t)
    \/ \E t \in Scalars : operator_double(t)
    \/ \E t \in Scalars : operator_string_type(t)

SpecScalar == InitScalar /\ [][NextScalar]_vars

\* the literal of the file of the disk
TokenOf(fs) == CHOOSE t \in ScalarTokens : ScalarFile(t) = fs[File(<<"a">>)]

\* the Setting a of the Config, once the file is read
SettingA(h, ds) == h[h[ds[1]].kids[1]]

\* C21: the type and the format of the Setting a literal gives are those
\* its token has by the rules of the language (String, Boolean, Int and
\* Int64 in decimal or with the Hex format, Float), and a token that is no
\* literal raises ParseException; stated of the literals whose value the
\* type holds
C21_TokenDecidesType ==
    [][ \A build \in Builds :
            (TokenOf(disk) \notin OverflowTokens /\ readFile(1, <<"a">>, build)) =>
                IF TokenOf(disk).type = "none"
                THEN err' = "ParseException" /\ heap' = heap
                ELSE /\ err' = "none"
                     /\ Len(heap'[docs'[1]].kids) = 1
                     /\ SettingA(heap', docs').name = <<"a">>
                     /\ SettingA(heap', docs').type = TokenOf(disk).type
                     /\ SettingA(heap', docs').fmt = TokenOf(disk).fmt ]_vars

\* the Config holds the Int64 in Hex format read from a literal
C21_Witness ==
    /\ err = "none"
    /\ heap[docs[1]].kids # <<>>
    /\ SettingA(heap, docs).type = "TypeInt64"
    /\ SettingA(heap, docs).fmt = "FormatHex"

\* C22: an Int literal, decimal or hexadecimal, of a value outside the
\* range of int raises ParseException, and no Setting is made of it
C22_IntOverflowRaises ==
    [][ \A build \in Builds :
            (TokenOf(disk) \in OverflowTokens /\ readFile(1, <<"a">>, build))
            => err' = "ParseException" /\ heap' = heap ]_vars

\* C23: the String a string literal gives holds the text between its
\* quotes, the escapes replaced and adjacent literals joined, and neither
\* quote; so does the empty literal
C23_StringIsInterior ==
    [][ \A build \in Builds :
            (TokenOf(disk) \in StringTokens /\ readFile(1, <<"a">>, build)) =>
                /\ err' = "none"
                /\ SettingA(heap', docs').type = "TypeString"
                /\ SettingA(heap', docs').val = TokenOf(disk).val ]_vars

\* C28: the literal true, in whatever letter case, gives a Boolean that
\* operator bool reads as true, and the literal false one that it reads as
\* false
C28_BooleanReadsBack ==
    [][ /\ \A build \in Builds :
              (TokenOf(disk) \in BooleanTokens /\ readFile(1, <<"a">>, build))
              => err' = "none" /\ SettingA(heap', docs').type = "TypeBoolean"
        /\ \A t \in Scalars :
              (TokenOf(disk) \in BooleanTokens /\ operator_bool(t))
              => err' = "none" /\ got'.val = TokenOf(disk).val ]_vars

----------------------------------------------------------------------------
(* Tokenizing the text of a file *)

\* a text, the tokens the rules of the language give for it, each with the
\* line and the column of its first character, and whether the text ends
\* inside a block comment (the tokens are then those before the comment)
Lexed(text, tokens, open) == [ text |-> text, tokens |-> tokens, open |-> open ]

TokenTexts ==
    { Lexed(<<"x", " ", "=", " ", "1", ";">>,
            <<Token(<<"x">>, 1, 1), Token(<<"=">>, 1, 3), Token(<<"1">>, 1, 5), Token(<<";">>, 1, 6)>>, FALSE),
      Lexed(<<"x", " ", "=", " ", "1">>,
            <<Token(<<"x">>, 1, 1), Token(<<"=">>, 1, 3), Token(<<"1">>, 1, 5)>>, FALSE),
      Lexed(<<"x", "=", "1", ";", "\n", "y", "=", "2", ";", "\n">>,
            <<Token(<<"x">>, 1, 1), Token(<<"=">>, 1, 2), Token(<<"1">>, 1, 3), Token(<<";">>, 1, 4), Token(<<"y">>, 2, 1), Token(<<"=">>, 2, 2), Token(<<"2">>, 2, 3), Token(<<";">>, 2, 4)>>, FALSE),
      Lexed(<<"x", " ", "=", " ", "1", ";", " ", "/", "*", " ", "c">>,
            <<Token(<<"x">>, 1, 1), Token(<<"=">>, 1, 3), Token(<<"1">>, 1, 5), Token(<<";">>, 1, 6)>>, TRUE),
      Lexed(<<"/", "*", " ", "c", " ", "*", "/", " ", "x", " ", "=", " ", "1", ";">>,
            <<Token(<<"x">>, 1, 9), Token(<<"=">>, 1, 11), Token(<<"1">>, 1, 13), Token(<<";">>, 1, 14)>>, FALSE),
      Lexed(<<"/", "*">>,
            <<>>, TRUE),
      Lexed(<<"x", " ", "=", " ", "1", ";", " ", "/", "*", " ", "c", " ", "*">>,
            <<Token(<<"x">>, 1, 1), Token(<<"=">>, 1, 3), Token(<<"1">>, 1, 5), Token(<<";">>, 1, 6)>>, TRUE),
      Lexed(<<"x", " ", "=", " ", "1", ";", "\n", "/", "*", " ", "a", "\n", "b", " ", "*", "/", "\n", "y", " ", "=", " ", "2", ";">>,
            <<Token(<<"x">>, 1, 1), Token(<<"=">>, 1, 3), Token(<<"1">>, 1, 5), Token(<<";">>, 1, 6), Token(<<"y">>, 4, 1), Token(<<"=">>, 4, 3), Token(<<"2">>, 4, 5), Token(<<";">>, 4, 6)>>, FALSE),
      Lexed(<<"#", " ", "c", "\n", "x", " ", "=", " ", "1", ";">>,
            <<Token(<<"x">>, 2, 1), Token(<<"=">>, 2, 3), Token(<<"1">>, 2, 5), Token(<<";">>, 2, 6)>>, FALSE),
      Lexed(<<"/", "/", " ", "c", "\n", "x", " ", "=", " ", "1", ";">>,
            <<Token(<<"x">>, 2, 1), Token(<<"=">>, 2, 3), Token(<<"1">>, 2, 5), Token(<<";">>, 2, 6)>>, FALSE),
      Lexed(<<"x", " ", "=", " ", "\"", "a", " ", "b", "\"", ";">>,
            <<Token(<<"x">>, 1, 1), Token(<<"=">>, 1, 3), Token(<<"\"", "a", " ", "b", "\"">>, 1, 5), Token(<<";">>, 1, 10)>>, FALSE),
      Lexed(<<"x", " ", "=", " ", "1", ";", " ", "/", "*", " ", "c", " ", "*", "/">>,
            <<Token(<<"x">>, 1, 1), Token(<<"=">>, 1, 3), Token(<<"1">>, 1, 5), Token(<<";">>, 1, 6)>>, FALSE),
      Lexed(<<"a", "b", "c">>,
            <<Token(<<"a", "b", "c">>, 1, 1)>>, FALSE),
      Lexed(<<"\n", "x", " ", "=", " ", "1", ";">>,
            <<Token(<<"x">>, 2, 1), Token(<<"=">>, 2, 3), Token(<<"1">>, 2, 5), Token(<<";">>, 2, 6)>>, FALSE),
      Lexed(<<"x", " ", ":", " ", "{", " ", "y", " ", "=", " ", "2", ";", " ", "}", ";">>,
            <<Token(<<"x">>, 1, 1), Token(<<":">>, 1, 3), Token(<<"{">>, 1, 5), Token(<<"y">>, 1, 7), Token(<<"=">>, 1, 9), Token(<<"2">>, 1, 11), Token(<<";">>, 1, 12), Token(<<"}">>, 1, 14), Token(<<";">>, 1, 15)>>, FALSE),
      Lexed(<<"x", " ", "=", " ", "[", "1", ",", " ", "2", "]", ";">>,
            <<Token(<<"x">>, 1, 1), Token(<<"=">>, 1, 3), Token(<<"[">>, 1, 5), Token(<<"1">>, 1, 6), Token(<<",">>, 1, 7), Token(<<"2">>, 1, 9), Token(<<"]">>, 1, 10), Token(<<";">>, 1, 11)>>, FALSE),
      Lexed(<<"x", " ", "=", " ", "(", "1", ",", " ", "\"", "a", "\"", ")", ";">>,
            <<Token(<<"x">>, 1, 1), Token(<<"=">>, 1, 3), Token(<<"(">>, 1, 5), Token(<<"1">>, 1, 6), Token(<<",">>, 1, 7), Token(<<"\"", "a", "\"">>, 1, 9), Token(<<")">>, 1, 12), Token(<<";">>, 1, 13)>>, FALSE),
      Lexed(<<"x", " ", "=", " ", "1", ";", " ", "#", " ", "c">>,
            <<Token(<<"x">>, 1, 1), Token(<<"=">>, 1, 3), Token(<<"1">>, 1, 5), Token(<<";">>, 1, 6)>>, FALSE),
      Lexed(<<"x", " ", "=", " ", "1", ";", " ", "/", "/", " ", "c">>,
            <<Token(<<"x">>, 1, 1), Token(<<"=">>, 1, 3), Token(<<"1">>, 1, 5), Token(<<";">>, 1, 6)>>, FALSE),
      Lexed(<<"x", " ", "=", " ", "1", ";", "\n", "y", " ", "=", " ", "2">>,
            <<Token(<<"x">>, 1, 1), Token(<<"=">>, 1, 3), Token(<<"1">>, 1, 5), Token(<<";">>, 1, 6), Token(<<"y">>, 2, 1), Token(<<"=">>, 2, 3), Token(<<"2">>, 2, 5)>>, FALSE),
      Lexed(<<"x", " ", "=", " ", "/", "*", " ", "c", " ", "*", "/", " ", "1", ";">>,
            <<Token(<<"x">>, 1, 1), Token(<<"=">>, 1, 3), Token(<<"1">>, 1, 13), Token(<<";">>, 1, 14)>>, FALSE),
      Lexed(<<"x", " ", "=", " ", "1", " ", "/", "*", " ", "c">>,
            <<Token(<<"x">>, 1, 1), Token(<<"=">>, 1, 3), Token(<<"1">>, 1, 5)>>, TRUE),
      Lexed(<<"x", " ", "=", " ", "1", ";", "/", "*">>,
            <<Token(<<"x">>, 1, 1), Token(<<"=">>, 1, 3), Token(<<"1">>, 1, 5), Token(<<";">>, 1, 6)>>, TRUE),
      Lexed(<<" ", " ", "x", " ", "=", " ", "1", ";">>,
            <<Token(<<"x">>, 1, 3), Token(<<"=">>, 1, 5), Token(<<"1">>, 1, 7), Token(<<";">>, 1, 8)>>, FALSE),
      Lexed(<<"x", " ", "=", " ", "t", "r", "u", "e", ";", "\n", "\n", "y", " ", "=", " ", "2", ".", "5", ";">>,
            <<Token(<<"x">>, 1, 1), Token(<<"=">>, 1, 3), Token(<<"t", "r", "u", "e">>, 1, 5), Token(<<";">>, 1, 9), Token(<<"y">>, 3, 1), Token(<<"=">>, 3, 3), Token(<<"2", ".", "5">>, 3, 5), Token(<<";">>, 3, 8)>>, FALSE),
      Lexed(<<"/", "*", " ", "a", " ", "*", "/", " ", "/", "*", " ", "b">>,
            <<>>, TRUE),
      Lexed(<<"x", "/", "*", " ", "c", " ", "*", "/", "=", " ", "1", ";">>,
            <<Token(<<"x">>, 1, 1), Token(<<"=">>, 1, 9), Token(<<"1">>, 1, 11), Token(<<";">>, 1, 12)>>, FALSE),
      Lexed(<<"x", " ", "=", " ", "1", ";", "\n", "/", "*", " ", "c">>,
            <<Token(<<"x">>, 1, 1), Token(<<"=">>, 1, 3), Token(<<"1">>, 1, 5), Token(<<";">>, 1, 6)>>, TRUE),
      Lexed(<<"x", " ", "=", " ", "\"", "a", "\"", "\n", " ", " ", "\"", "b", "\"", ";">>,
            <<Token(<<"x">>, 1, 1), Token(<<"=">>, 1, 3), Token(<<"\"", "a", "\"">>, 1, 5), Token(<<"\"", "b", "\"">>, 2, 3), Token(<<";">>, 2, 6)>>, FALSE),
      Lexed(<<"x", " ", "=", " ", "1", ";", "/", "*", "*", "/">>,
            <<Token(<<"x">>, 1, 1), Token(<<"=">>, 1, 3), Token(<<"1">>, 1, 5), Token(<<";">>, 1, 6)>>, FALSE),
      Lexed(<<>>,
            <<>>, FALSE),
      Lexed(<<"x", " ", "=", " ", "1", ";", "\n">>,
            <<Token(<<"x">>, 1, 1), Token(<<"=">>, 1, 3), Token(<<"1">>, 1, 5), Token(<<";">>, 1, 6)>>, FALSE),
      Lexed(<<"x", " ", "=", " ", "1", ";", "\n", "y", " ", "=", " ", "2", ";", "\n", "/", "*", " ", "c", "\n">>,
            <<Token(<<"x">>, 1, 1), Token(<<"=">>, 1, 3), Token(<<"1">>, 1, 5), Token(<<";">>, 1, 6), Token(<<"y">>, 2, 1), Token(<<"=">>, 2, 3), Token(<<"2">>, 2, 5), Token(<<";">>, 2, 6)>>, TRUE),
      Lexed(<<"x", " ", "=", " ", "1", ";", "\n", "y", " ", "=", " ", "2", "2">>,
            <<Token(<<"x">>, 1, 1), Token(<<"=">>, 1, 3), Token(<<"1">>, 1, 5), Token(<<";">>, 1, 6), Token(<<"y">>, 2, 1), Token(<<"=">>, 2, 3), Token(<<"2", "2">>, 2, 5)>>, FALSE) }

InitTokens ==
    /\ heap = NewConfig
    /\ docs = <<1>>
    /\ err = "none"
    /\ got = NoRead
    /\ \E t \in TokenTexts : disk = (File(<<"a">>) :> t.text)

SpecTokens == InitTokens /\ [][NextFile]_vars

\* the text of the file a of the disk
LexedOf(fs) == CHOOSE t \in TokenTexts : t.text = fs[File(<<"a">>)]

\* C24: a text that ends inside a block comment makes the tokenizer raise
\* ParseException, and so does reading the file that holds it
C24_OpenCommentRaises ==
    [][ \A build \in Builds :
            (LexedOf(disk).open /\ readFile(1, <<"a">>, build))
            => /\ tokenize(disk[File(<<"a">>)]).err = "ParseException"
               /\ err' = "ParseException" ]_vars

\* the tokens carry the lines and the columns of the tokens of t
Placed(tokens, t) ==
    \A i \in 1..Len(tokens) :
        i <= Len(t.tokens) =>
            /\ tokens[i].line = t.tokens[i].line
            /\ tokens[i].offset = t.tokens[i].offset

\* C25: every token the tokenizer yields when a file is read carries the
\* line and the column, both counted from 1, of its first character
C25_TokensCarryPosition ==
    [][ \A build \in Builds :
            readFile(1, <<"a">>, build)
            => Placed(tokenize(disk[File(<<"a">>)]).tokens, LexedOf(disk)) ]_vars

\* C26: the tokenizer yields every run of characters of a text as one token,
\* whole, and the run that the end of the text ends as well
C26_EveryRunIsAToken ==
    [][ \A build \in Builds :
            (~LexedOf(disk).open /\ readFile(1, <<"a">>, build))
            => /\ tokenize(disk[File(<<"a">>)]).err = "none"
               /\ Texts(tokenize(disk[File(<<"a">>)]).tokens)
                      = Texts(LexedOf(disk).tokens) ]_vars

====
